---------------------------- MODULE Spec2Model ----------------------------
(***************************************************************************)
(* A model of goxtool.py: the signal bus (Signal, BaseObject.debug), the   *)
(* order book maintainer (OrderBook) and the reconnecting receive threads  *)
(* of the two transports (WebsocketClient, SocketIOClient).                *)
(*                                                                         *)
(* The module holds several specifications over one set of variables; each *)
(* specification leaves the variables of the other parts unchanged:        *)
(*   SpecBook    the public order book under ticker, depth, trade and      *)
(*               fulldepth events                                          *)
(*   SpecSignal  one thread sending signals to slots that return or raise, *)
(*               while slots are being connected                           *)
(*   SpecLock    the threads sending signals through the shared lock       *)
(*   SpecConn    the receive thread of the transport: connect, subscribe,  *)
(*               read, and on any failure close, sleep and reconnect;      *)
(*               FairSpecConn adds that the thread keeps being scheduled   *)
(*   SpecDispatch the same thread with the messages of Gox.slot_recv       *)
(*   SpecCalls   a caller thread in Gox.order, Gox.cancel and cancel_by_*  *)
(*               while the receive thread dispatches user_order pushes     *)
(*   SpecHistory the candles under streamed trades and fullhistory lists   *)
(*   SpecLadder  depth and ticker events on a book with three prices       *)
(*   SpecTrade   Gox._on_trade with public and own trades, sent to the     *)
(*               History and the OrderBook, next to depth events,          *)
(*               snapshots and pushes of own orders                        *)
(*   SpecOwns    the sources of signal_userorder: Gox.order, Gox.cancel    *)
(*               and the pushes                                            *)
(*   SpecOrders  the result of private/orders and pushes of own orders     *)
(*   SpecRollover a History with timeframe 60 under streamed trades        *)
(*   SpecRecv    Gox.slot_recv with what its handlers do to the book, the  *)
(*               history and the own orders, on market data, pushes and    *)
(*               results of private/orders, well-formed or not             *)
(*   SpecWallet  the same on wallet pushes and results of private/info     *)
(*   SpecCancel  cancel_by_price and cancel_by_type run alone              *)
(*   SpecThreads the receive thread, the two snapshot threads and a caller *)
(*               of Gox.order, each writing from its slot inside send()    *)
(***************************************************************************)
EXTENDS Integers, Sequences, FiniteSets, TLC

\* ------------------------------------------------------------ bounds
\* prices of the public book are drawn from 1..MaxPrice
MaxPrice == 2
\* volumes (depth totals, trade volumes, snapshot amounts) from 1..MaxVol
MaxVol == 1

Prices == 1..MaxPrice
Vols == 1..MaxVol
\* total_volume_int of a depth message: 0 removes the level
TotalVols == 0..MaxVol
Sides == {"ask", "bid"}

\* slots (callbacks) are 1..MaxSlots
MaxSlots == 2
\* send() calls nested inside one another per thread, in SpecLock
MaxDepth == 2
\* the same in SpecSignal: 1 is a send() from the thread's top level
MaxNest == 1
\* failing remarks the server sends per bootstrap reqid and connection
MaxResends == 2
\* trades in one fullhistory list
MaxTrades == 2
\* candles that streamed trades build up, and the volume of one candle
MaxCandles == 1
MaxCandleVol == 2
\* candles of the History with timeframe 60, in SpecRollover
MaxStream == 2
\* levels of the book, asks and bids together, in SpecLadder
MaxLadder == 3
\* entries of one result of private/orders
MaxOrders == 3

\* the threads that send signals: the receive thread of the transport
\* (start_thread(self._recv_thread)) and a snapshot thread (fulldepth_thread)
Threads == {"recv_thread", "fulldepth_thread"}
NoThread == "none"
Slots == 1..MaxSlots
\* two Signal instances, one of them a BaseObject's signal_debug
Signals == {"signal_debug", "signal_recv"}
\* oids and statuses of the user_order pushes
Oids == {"o1", "o2"}
Statuses == {"open", "removed"}
\* the currency of the engine and another one
Currencies == {"USD", "EUR"}

VARIABLES
    asks,       \* OrderBook.asks: sequence of Order, lowest ask first
    bids,       \* OrderBook.bids: sequence of Order, highest bid first
    owns,       \* OrderBook.owns: sequence of Order, unordered
    bid,        \* OrderBook.bid: cached top of book
    ask,        \* OrderBook.ask
    ev,         \* the last event the book handled: [kind, changed]
    emitted,    \* calls of orderbook.signal_changed.send during that event
    book_pc,    \* position inside slot_fulldepth, "idle" between events
    pre,        \* history: what slot_fulldepth replaced so far
    slots,      \* Signal._slots of each signal: sequence of slots
    lock_owner, \* Signal._lock (one RLock for all signals): owner or NoThread
    lock_count, \* Signal._lock: recursion level
    stack,      \* per thread: its running send() calls, innermost last
    conn_pc,    \* position of _recv_thread
    cfg,        \* configuration: transport variant, secret known, load_*
    socket,     \* self.socket: "None", or the state of the websocket it
                \* refers to, "open" or "closed"
    nopen,      \* websockets of this client that are open
    slept,      \* seconds slept by the time.sleep of the last failure
    retry,      \* history: a failure has happened
    sub_i,      \* next step of channel_subscribe, 1..8
    sent,       \* what channel_subscribe sent on the current connection
    started,    \* snapshot threads channel_subscribe started on it
    rx,         \* what the read loop did with the last frame
    dsp,        \* the last dispatch of slot_recv on this connection: the
                \* frame, the signed calls it made, what it put on the
                \* socket, whether it logged a traceback
    resends,    \* per bootstrap reqid: resends put on the socket since the
                \* channel_subscribe of this connection
    candles,    \* History.candles: sequence of OHLCV, newest first
    hev,        \* the last event of the history: its kind and trade list,
                \* how often in a row that list was dispatched, the
                \* candles after its first dispatch, signal_changed sent
    call,       \* the caller thread inside Gox.order, Gox.cancel or
                \* cancel_by_*: where it is and its arguments
    oev,        \* what the last step on the own orders did: a return of
                \* the caller thread or a user_order push
    wallet,     \* Gox.wallet: balance (value_int) per currency
    gev,        \* the last message Gox.slot_recv handled: the message, the
                \* signals Gox sent, the calls it made on the client,
                \* whether a handler raised
    last        \* the send() that returned last: ret its result, logged
                \* whether BaseObject.debug, if it made the call (debug),
                \* wrote to the logger; history: n the number of slots it
                \* invoked, ok whether one of them returned without raising

bookVars == <<asks, bids, owns, bid, ask, ev, emitted, book_pc, pre>>
signalVars == <<slots, lock_owner, lock_count, stack, last>>
connVars == <<conn_pc, cfg, socket, nopen, slept, retry, sub_i, sent,
              started, rx, dsp, resends>>
dispatchVars == <<dsp, resends>>
vars == <<asks, bids, owns, bid, ask, ev, emitted, book_pc, pre,
          slots, lock_owner, lock_count, stack, last,
          conn_pc, cfg, socket, nopen, slept, retry, sub_i, sent, started, rx,
          dsp, resends, call, oev, candles, hev, wallet, gev>>
\* what the steps of each specification leave alone
callVars == <<call, oev>>
historyVars == <<candles, hev>>
goxVars == <<wallet, gev>>
otherThanBook == <<signalVars, connVars, callVars, historyVars, goxVars>>
otherThanSignal == <<bookVars, connVars, callVars, historyVars, goxVars>>
otherThanConn == <<bookVars, signalVars, callVars, historyVars, goxVars>>
otherThanHistory == <<bookVars, signalVars, connVars, callVars, goxVars>>
\* the own orders and the event record of the book are written by
\* slot_user_order
otherThanCall == <<asks, bids, bid, ask, book_pc, pre, signalVars, connVars,
                   historyVars, goxVars>>

\* ------------------------------------------------------------ Order
Order(price, volume, typ, oid, status) ==
    [price |-> price, volume |-> volume, typ |-> typ, oid |-> oid,
     status |-> status]

\* list.insert(i, x) with a 1-based i in 1..Len(lst)+1
InsertAt(lst, i, x) ==
    SubSeq(lst, 1, i - 1) \o <<x>> \o SubSeq(lst, i, Len(lst))

\* list.pop(i) with a 1-based i
PopAt(lst, i) ==
    SubSeq(lst, 1, i - 1) \o SubSeq(lst, i + 1, Len(lst))

\* ------------------------------------------------------------ slot_ticker
\* mutant: a level priced exactly at the ask is popped as well
RECURSIVE prune_asks_mut(_, _)
prune_asks_mut(lst, a) ==
    IF Len(lst) > 0 /\ lst[1].price <= a THEN prune_asks_mut(Tail(lst), a)
    ELSE lst

RECURSIVE prune_asks(_, _)
prune_asks(lst, a) ==
    IF Len(lst) > 0 /\ lst[1].price < a THEN prune_asks(Tail(lst), a) ELSE lst

\* mutant: the bids loop compares the wrong way round
RECURSIVE prune_bids_mut(_, _)
prune_bids_mut(lst, b) ==
    IF Len(lst) > 0 /\ lst[1].price < b THEN prune_bids_mut(Tail(lst), b)
    ELSE lst

RECURSIVE prune_bids(_, _)
prune_bids(lst, b) ==
    IF Len(lst) > 0 /\ lst[1].price > b THEN prune_bids(Tail(lst), b) ELSE lst

\* the `change` flag of slot_ticker: a level was popped
ticker_change(b, a) ==
    prune_asks(asks, a) # asks \/ prune_bids(bids, b) # bids

\* emissions of signal_changed by slot_ticker
ticker_emissions(b, a) == IF ticker_change(b, a) THEN 1 ELSE 0

\* ------------------------------------------------------------ slot_depth
\* mutant: bids are compared like asks
must_insert_before_mut(existing, new, typ) == existing > new

must_insert_before(existing, new, typ) ==
    IF typ = "ask" THEN existing > new ELSE existing < new

\* the for loop of the total_vol > 0 branch, from index i on
RECURSIVE depth_scan(_, _, _, _, _)
depth_scan(lst, i, price, total_vol, typ) ==
    IF i > Len(lst) THEN lst
    ELSE IF lst[i].price = price
        THEN [lst EXCEPT ![i].volume = total_vol]
    ELSE IF must_insert_before(lst[i].price, price, typ)
        THEN InsertAt(lst, i, Order(price, total_vol, typ, "", ""))
    ELSE IF i = Len(lst)
        THEN Append(lst, Order(price, total_vol, typ, "", ""))
    ELSE depth_scan(lst, i + 1, price, total_vol, typ)

\* mutant: the removing branch stops at the first level
depth_remove_mut(lst, i, price) ==
    IF i > Len(lst) THEN lst
    ELSE IF lst[i].price = price THEN PopAt(lst, i)
    ELSE lst

\* the for loop of the removing branch, from index i on
RECURSIVE depth_remove(_, _, _)
depth_remove(lst, i, price) ==
    IF i > Len(lst) THEN lst
    ELSE IF lst[i].price = price THEN PopAt(lst, i)
    ELSE depth_remove(lst, i + 1, price)

depth_update_list(lst, price, total_vol, typ) ==
    IF total_vol > 0
    THEN IF Len(lst) = 0
         THEN <<Order(price, total_vol, typ, "", "")>>
         ELSE depth_scan(lst, 1, price, total_vol, typ)
    ELSE depth_remove(lst, 1, price)

\* mutant: slot_depth emits only when the book changed
depth_emissions_mut(changed) == IF changed THEN 1 ELSE 0

\* emissions of signal_changed by slot_depth
depth_emissions(changed) == 1

\* ------------------------------------------------------------ slot_trade
\* mutant: a level is removed only below zero
trade_update_list_mut(lst, price, volume) ==
    IF Len(lst) = 0 THEN lst
    ELSE IF lst[1].price = price
        THEN IF lst[1].volume - volume < 0
             THEN Tail(lst)
             ELSE [lst EXCEPT ![1].volume = lst[1].volume - volume]
        ELSE lst

\* the loop body ends in an unconditional break: only lst[0] is examined
trade_update_list(lst, price, volume) ==
    IF Len(lst) = 0 THEN lst
    ELSE IF lst[1].price = price
        THEN IF lst[1].volume - volume <= 0
             THEN Tail(lst)
             ELSE [lst EXCEPT ![1].volume = lst[1].volume - volume]
        ELSE lst

\* mutant: the cached top of book is not refreshed
trade_refresh_mut(cached, lst) == cached

\* the refresh of the cached top of book after a public trade
trade_refresh(cached, lst) ==
    IF Len(lst) > 0 THEN lst[1].price ELSE cached

\* -------------------------------------------------------- slot_user_order
\* mutant: no own order is ever found
owns_find_mut(lst, i, oid) == 0

RECURSIVE owns_find(_, _, _)
\* index of the first own order with this oid from index i on, 0 if none
owns_find(lst, i, oid) ==
    IF i > Len(lst) THEN 0
    ELSE IF lst[i].oid = oid THEN i
    ELSE owns_find(lst, i + 1, oid)

\* mutant: an order that is not removed is always appended
user_order_update_mut(lst, price, volume, typ, oid, status) ==
    LET i == owns_find(lst, 1, oid) IN
    IF status = "removed"
    THEN IF i = 0 THEN lst ELSE PopAt(lst, i)
    ELSE Append(lst, Order(price, volume, typ, oid, status))

user_order_update(lst, price, volume, typ, oid, status) ==
    LET i == owns_find(lst, 1, oid) IN
    IF status = "removed"
    THEN IF i = 0 THEN lst ELSE PopAt(lst, i)
    ELSE IF i = 0
         THEN Append(lst, Order(price, volume, typ, oid, status))
         ELSE [lst EXCEPT ![i].volume = volume, ![i].status = status]

\* ------------------------------------------------------------ slot_fulldepth
RECURSIVE load_asks(_, _)
\* asks.append for each entry of depth["return"]["asks"]
load_asks(acc, entries) ==
    IF Len(entries) = 0 THEN acc
    ELSE load_asks(Append(acc, Order(entries[1].price, entries[1].volume,
                                     "ask", "", "")), Tail(entries))

\* mutant: the bids are appended in the order of the snapshot
RECURSIVE load_bids_mut(_, _)
load_bids_mut(acc, entries) ==
    IF Len(entries) = 0 THEN acc
    ELSE load_bids_mut(Append(acc, Order(entries[1].price, entries[1].volume,
                                         "bid", "", "")), Tail(entries))

RECURSIVE load_bids(_, _)
\* bids.insert(0, ...) for each entry of depth["return"]["bids"]
load_bids(acc, entries) ==
    IF Len(entries) = 0 THEN acc
    ELSE load_bids(<<Order(entries[1].price, entries[1].volume,
                           "bid", "", "")>> \o acc, Tail(entries))

\* one side of a snapshot of the server: ascending in price, unique
\* prices, positive amounts
Ascending(s) == \A i \in 1..(Len(s) - 1) : s[i].price < s[i + 1].price

SnapshotSides ==
    {s \in UNION {[1..n -> [price : Prices, volume : Vols]] : n \in 0..MaxPrice} :
        Ascending(s)}

\* ------------------------------------------------------------ the book
BookState == <<asks, bids, owns, bid, ask>>

NoPre == [changed |-> FALSE, bids |-> <<>>]

\* no send() has returned yet
NoSend == [ret |-> FALSE, ok |-> FALSE, n |-> 0, debug |-> FALSE,
           logged |-> FALSE]

SignalInit ==
    /\ slots = [s \in Signals |-> <<>>]
    /\ lock_owner = NoThread
    /\ lock_count = 0
    /\ stack = [t \in Threads |-> <<>>]
    /\ last = NoSend

BookInit ==
    /\ asks = <<>>
    /\ bids = <<>>
    /\ owns = <<>>
    /\ bid = 0
    /\ ask = 0
    /\ ev = [kind |-> "init", changed |-> FALSE]
    /\ emitted = 0
    /\ book_pc = "idle"
    /\ pre = NoPre

\* BaseClient.__init__ with one of the configurations
Configs ==
    [websocket : BOOLEAN, secret : BOOLEAN, load_fulldepth : BOOLEAN,
     load_history : BOOLEAN]

\* the reqids of the calls that channel_subscribe makes
BootIds == {"idkey", "info", "orders"}

NoDispatch == [body |-> [json |-> FALSE], calls |-> <<>>, wire |-> <<>>,
               traceback |-> FALSE]

ConnInit ==
    /\ dsp = NoDispatch
    /\ resends = [i \in BootIds |-> 0]
    /\ conn_pc = "connect"
    /\ cfg \in Configs
    /\ socket = "None"
    /\ nopen = 0
    /\ slept = 0
    /\ retry = FALSE
    /\ sub_i = 1
    /\ sent = <<>>
    /\ started = {}
    /\ rx = "none"

\* the configuration the other specifications run with
ConnIdle == ConnInit /\ cfg = [websocket |-> FALSE, secret |-> TRUE,
                               load_fulldepth |-> TRUE, load_history |-> TRUE]

\* no call of Gox.order or Gox.cancel is running
Idle == [pc |-> "idle", op |-> "none", typ |-> "", price |-> 0, volume |-> 0,
         oid |-> "", by |-> "none", i |-> 0, ftyp |-> "", fprice |-> 0]

NoEvent == [op |-> "none", cause |-> "", res |-> [kind |-> "None"],
            oid |-> "", ok |-> FALSE, raised |-> FALSE, sent |-> <<>>,
            http |-> 0, i |-> 0, n |-> 0]

NoHistoryEvent == [kind |-> "init", list |-> <<>>, reps |-> 0,
                   first |-> <<>>, sent |-> 0]

\* Gox.wallet = {}
NoWallet == [c \in {} |-> 0]

\* slot_recv has handled no message yet
NoGoxEvent == [msg |-> [op |-> "none"], signals |-> <<>>, calls |-> <<>>,
               raised |-> FALSE]

\* Gox.__init__ with History.__init__, and the caller thread at rest
CallInit ==
    /\ call = Idle
    /\ oev = NoEvent
    /\ candles = <<>>
    /\ hev = NoHistoryEvent
    /\ wallet = NoWallet
    /\ gev = NoGoxEvent

Init == BookInit /\ SignalInit /\ ConnIdle /\ CallInit

\* slot_ticker with (bid, ask) = (b, a)
Ticker(b, a) ==
    /\ book_pc = "idle"
    /\ bid' = b
    /\ ask' = a
    /\ asks' = prune_asks(asks, a)
    /\ bids' = prune_bids(bids, b)
    /\ emitted' = ticker_emissions(b, a)
    /\ UNCHANGED <<owns, book_pc, pre>>
    /\ UNCHANGED otherThanBook
    /\ ev' = [kind |-> "ticker", changed |-> BookState' # BookState]

\* slot_depth with (typ, price, voldiff, total_vol)
Depth(typ, price, total_vol) ==
    /\ book_pc = "idle"
    /\ asks' = IF typ = "ask"
               THEN depth_update_list(asks, price, total_vol, "ask")
               ELSE asks
    /\ bids' = IF typ = "bid"
               THEN depth_update_list(bids, price, total_vol, "bid")
               ELSE bids
    /\ UNCHANGED <<owns, bid, ask, book_pc, pre>>
    /\ UNCHANGED otherThanBook
    /\ ev' = [kind |-> "depth", changed |-> BookState' # BookState]
    /\ emitted' = depth_emissions(BookState' # BookState)

\* OrderBook.slot_trade with (date, price, volume, own): what it does to
\* the book
book_slot_trade(price, volume, own) ==
    /\ book_pc = "idle"
    /\ IF own
       THEN /\ owns' = trade_update_list(owns, price, volume)
            /\ UNCHANGED <<asks, bids, bid, ask>>
       ELSE /\ asks' = trade_update_list(asks, price, volume)
            /\ bids' = trade_update_list(bids, price, volume)
            /\ ask' = trade_refresh(ask, asks')
            /\ bid' = trade_refresh(bid, bids')
            /\ UNCHANGED owns
    /\ UNCHANGED <<book_pc, pre>>
    /\ ev' = [kind |-> "trade", changed |-> BookState' # BookState]
    /\ emitted' = 1

\* slot_trade with own = False
Trade(price, volume) ==
    /\ book_slot_trade(price, volume, FALSE)
    /\ UNCHANGED otherThanBook

\* slot_fulldepth runs under the emission lock; the model takes it in two
\* steps, the clearing with the asks loop and then the bids loop with the
\* emission, and no other handler runs in between.
FulldepthAsks(sa) ==
    /\ book_pc = "idle"
    /\ asks' = load_asks(<<>>, sa)
    /\ bids' = <<>>
    /\ pre' = [changed |-> asks' # asks, bids |-> bids]
    /\ book_pc' = "fulldepth_bids"
    /\ UNCHANGED <<owns, bid, ask>>
    /\ UNCHANGED otherThanBook
    /\ ev' = [kind |-> "fulldepth_asks", changed |-> BookState' # BookState]
    /\ emitted' = 0

FulldepthBids(sb) ==
    /\ book_pc = "fulldepth_bids"
    /\ bids' = load_bids(<<>>, sb)
    /\ ev' = [kind |-> "fulldepth", changed |-> pre.changed \/ bids' # pre.bids]
    /\ emitted' = 1
    /\ book_pc' = "idle"
    /\ pre' = NoPre
    /\ UNCHANGED <<asks, owns, bid, ask>>
    /\ UNCHANGED otherThanBook

BookNext ==
    \/ \E b \in Prices, a \in Prices : Ticker(b, a)
    \/ \E typ \in Sides, price \in Prices, total_vol \in TotalVols :
            Depth(typ, price, total_vol)
    \/ \E price \in Prices, volume \in Vols : Trade(price, volume)
    \/ \E sa \in SnapshotSides : FulldepthAsks(sa)
    \/ \E sb \in SnapshotSides : FulldepthBids(sb)

SpecBook == Init /\ [][BookNext]_vars

\* depth and ticker events on a book of at most MaxLadder levels with
\* three prices and two volumes, so that a level can be inserted between
\* two others and overwritten with another volume
LadderPrices == {1, 2, 3}
LadderVols == {0, 1, 2}

LadderNext ==
    \/ \E b \in LadderPrices, a \in LadderPrices : Ticker(b, a)
    \/ \E typ \in Sides, price \in LadderPrices, total_vol \in LadderVols :
            /\ Depth(typ, price, total_vol)
            /\ Len(asks') + Len(bids') <= MaxLadder

SpecLadder == Init /\ [][LadderNext]_vars


\* ------------------------------------------------------------ C1 .. C6
StrictlyAscending(lst) ==
    \A i \in 1..(Len(lst) - 1) : lst[i].price < lst[i + 1].price

StrictlyDescending(lst) ==
    \A i \in 1..(Len(lst) - 1) : lst[i].price > lst[i + 1].price

Top(lst) == IF Len(lst) > 0 THEN lst[1].price ELSE 0

\* C1: after any sequence of ticker, depth, public trade and fulldepth
\* events (snapshots ascending with unique prices) asks is strictly
\* ascending and bids strictly descending by price.
C1_LaddersSorted ==
    StrictlyAscending(asks) /\ StrictlyDescending(bids)

\* a depth event left two levels on each side
C1_Witness ==
    ev.kind = "depth" /\ ev.changed /\ Len(asks) = 2 /\ Len(bids) = 2

\* C2 as claimed: whenever asks and bids are both non-empty,
\* asks[0].price > bids[0].price.
C2_NeverCrossed ==
    (Len(asks) > 0 /\ Len(bids) > 0) => asks[1].price > bids[1].price

\* C2 amended: right after a ticker event whose bid is below its ask, a book
\* with both sides non-empty is not crossed: asks[0].price > bids[0].price.
C2_UncrossedAfterTicker ==
    (ev.kind = "ticker" /\ bid < ask /\ Len(asks) > 0 /\ Len(bids) > 0)
        => asks[1].price > bids[1].price

\* a ticker with bid < ask pruned a level and left both sides non-empty
C2_Witness ==
    /\ ev.kind = "ticker" /\ bid < ask /\ emitted = 1
    /\ Len(asks) > 0 /\ Len(bids) > 0

\* C3: every level of asks and of bids has volume > 0.
C3_VolumesPositive ==
    /\ \A i \in 1..Len(asks) : asks[i].volume > 0
    /\ \A i \in 1..Len(bids) : bids[i].volume > 0

\* a public trade consumed the top ask level and other levels remain
C3_Witness ==
    ev.kind = "trade" /\ ev.changed /\ Len(asks) = 1 /\ Len(bids) > 0

\* C4 as claimed: right after a ticker and right after a public trade, bid
\* is bids[0].price (0 when bids is empty) and ask is asks[0].price (0 when
\* asks is empty).
C4_CachedIsTop ==
    ev.kind \in {"ticker", "trade"} => (bid = Top(bids) /\ ask = Top(asks))

\* C4 amended: right after a public trade, bid is bids[0].price when bids is
\* non-empty and ask is asks[0].price when asks is non-empty (the cached
\* value of an empty side is left as it was); right after a ticker the
\* cached values are the ticker's and bound the ladders: bids[0].price <= bid
\* and asks[0].price >= ask for the non-empty sides.
C4_CachedAfterTradeOrTicker ==
    /\ ev.kind = "trade" =>
        /\ (Len(bids) > 0 => bid = bids[1].price)
        /\ (Len(asks) > 0 => ask = asks[1].price)
    /\ ev.kind = "ticker" =>
        /\ (Len(bids) > 0 => bids[1].price <= bid)
        /\ (Len(asks) > 0 => asks[1].price >= ask)

\* a public trade moved the cached ask to the new top of asks
C4_Witness ==
    /\ ev.kind = "trade" /\ ev.changed
    /\ Len(asks) > 0 /\ ask = asks[1].price /\ Len(bids) > 0

\* C5 as claimed: an event that changes a field of the book (asks, bids,
\* owns, bid, ask) emits signal_changed at least once.
C5_ChangeIsSignalled ==
    (book_pc = "idle" /\ ev.changed) => emitted >= 1

\* C6 as claimed: a depth event that leaves the book unchanged emits
\* signal_changed zero times.
C6_NoopDepthSilent ==
    (ev.kind = "depth" /\ ~ev.changed) => emitted = 0

\* C6 amended: every depth event emits signal_changed exactly once, also
\* when it leaves the book unchanged.
C6_DepthEmitsOnce ==
    ev.kind = "depth" => emitted = 1

\* a depth event that left a non-empty book unchanged
C6_Witness ==
    ev.kind = "depth" /\ ~ev.changed /\ emitted = 1 /\ Len(asks) > 0


\* ------------------------------------------------------------ Signal
\* a running send(): sig the signal, i the index of the for loop (1-based),
\* at "waiting" before the with statement, "iter" between two slots,
\* "in_slot" while slots[i] runs; debug tells a call by BaseObject.debug.
\* Two fields are history: called, the slots invoked so far, and ok,
\* whether one of them returned without raising.
Frame(sig, debug) ==
    [sig |-> sig, at |-> "waiting", i |-> 1, received |-> FALSE,
     called |-> <<>>, ok |-> FALSE, debug |-> debug]

Depth_(t) == Len(stack[t])
TopFrame(t) == stack[t][Len(stack[t])]
SetTop(t, f) == [stack EXCEPT ![t] = [@ EXCEPT ![Len(@)] = f]]

\* mutant: a plain Lock, not reentrant
lock_can_acquire_mut(t) == lock_owner = NoThread

\* mutant: no lock at all
lock_can_acquire_any(t) == TRUE

\* RLock.acquire succeeds at once for a free lock and for its owner
lock_can_acquire(t) == lock_owner = NoThread \/ lock_owner = t

\* the slot returned: received = True, the loop goes on
after_return(f) ==
    [f EXCEPT !.at = "iter", !.i = @ + 1, !.received = TRUE, !.ok = TRUE]

\* mutant: the exception ends the loop
after_exception_ends(f) ==
    [f EXCEPT !.at = "iter", !.i = Len(slots[f.sig]) + 1]

\* mutant: a slot that raised counts as having received
after_exception_counts(f) ==
    [f EXCEPT !.at = "iter", !.i = @ + 1, !.received = TRUE]

\* the slot raised: the bare except logs the traceback, the loop goes on
after_exception(f) ==
    [f EXCEPT !.at = "iter", !.i = @ + 1]

\* BaseObject.debug: logging.debug(msg) if send() returned False
debug_logs(f) == f.debug /\ ~f.received

\* Signal.connect(slot), called by any thread, takes no lock
Connect ==
    /\ \E sig \in Signals, slot \in Slots :
        slots' = [slots EXCEPT ![sig] =
                    IF \E k \in 1..Len(@) : @[k] = slot THEN @
                    ELSE Append(@, slot)]
    /\ UNCHANGED <<lock_owner, lock_count, stack, last>>
    /\ UNCHANGED otherThanSignal

\* thread t calls sig.send(), from its top level or from inside a slot, at
\* most maxd calls deep; debug tells a call made by BaseObject.debug on its
\* signal_debug
SendCall(t, maxd) ==
    /\ \E sig \in Signals, debug \in BOOLEAN :
        /\ debug => sig = "signal_debug"
        /\ Depth_(t) < maxd
        /\ Depth_(t) > 0 => TopFrame(t).at = "in_slot"
        /\ stack' = [stack EXCEPT ![t] = Append(@, Frame(sig, debug))]
    /\ UNCHANGED <<slots, lock_owner, lock_count, last>>
    /\ UNCHANGED otherThanSignal

\* with self._lock: entered
Acquire(t) ==
    /\ Depth_(t) > 0
    /\ TopFrame(t).at = "waiting"
    /\ lock_can_acquire(t)
    /\ lock_owner' = t
    /\ lock_count' = lock_count + 1
    /\ stack' = SetTop(t, [TopFrame(t) EXCEPT !.at = "iter"])
    /\ UNCHANGED <<slots, last>>
    /\ UNCHANGED otherThanSignal

\* for slot in self._slots: the next slot is called
SlotCall(t) ==
    /\ Depth_(t) > 0
    /\ TopFrame(t).at = "iter"
    /\ TopFrame(t).i <= Len(slots[TopFrame(t).sig])
    /\ stack' = SetTop(t, [TopFrame(t) EXCEPT
                    !.at = "in_slot",
                    !.called = Append(@, slots[TopFrame(t).sig][TopFrame(t).i])])
    /\ UNCHANGED <<slots, lock_owner, lock_count, last>>
    /\ UNCHANGED otherThanSignal

SlotReturn(t) ==
    /\ Depth_(t) > 0
    /\ TopFrame(t).at = "in_slot"
    /\ stack' = SetTop(t, after_return(TopFrame(t)))
    /\ UNCHANGED <<slots, lock_owner, lock_count, last>>
    /\ UNCHANGED otherThanSignal

SlotRaise(t) ==
    /\ Depth_(t) > 0
    /\ TopFrame(t).at = "in_slot"
    /\ stack' = SetTop(t, after_exception(TopFrame(t)))
    /\ UNCHANGED <<slots, lock_owner, lock_count, last>>
    /\ UNCHANGED otherThanSignal

\* the for loop is over (the list iterator finds no slot at its index)
loop_done(f) == f.at = "iter" /\ f.i > Len(slots[f.sig])

\* the loop is over: the with statement releases the lock, send() returns
\* received, and BaseObject.debug, if it made the call, logs or not
SendReturn(t) ==
    /\ Depth_(t) > 0
    /\ loop_done(TopFrame(t))
    /\ lock_count' = lock_count - 1
    /\ lock_owner' = IF lock_count = 1 THEN NoThread ELSE lock_owner
    /\ last' = [ret |-> TopFrame(t).received,
                ok |-> TopFrame(t).ok,
                n |-> Len(TopFrame(t).called),
                debug |-> TopFrame(t).debug,
                logged |-> debug_logs(TopFrame(t))]
    /\ stack' = [stack EXCEPT ![t] = SubSeq(@, 1, Len(@) - 1)]
    /\ UNCHANGED slots
    /\ UNCHANGED otherThanSignal

\* SpecSignal: one thread sends, slots are connected at any time
SignalNext ==
    \/ Connect
    \/ SendCall("recv_thread", MaxNest)
    \/ Acquire("recv_thread")
    \/ SlotCall("recv_thread")
    \/ SlotReturn("recv_thread")
    \/ SlotRaise("recv_thread")
    \/ SendReturn("recv_thread")

SpecSignal == Init /\ [][SignalNext]_vars

\* SpecLock: the threads send concurrently, one slot on each signal
LockInit ==
    /\ BookInit
    /\ ConnIdle
    /\ CallInit
    /\ slots = [s \in Signals |-> <<1>>]
    /\ lock_owner = NoThread
    /\ lock_count = 0
    /\ stack = [t \in Threads |-> <<>>]
    /\ last = NoSend

LockNext ==
    \E t \in Threads :
        \/ SendCall(t, MaxDepth)
        \/ Acquire(t)
        \/ SlotCall(t)
        \/ SlotReturn(t)
        \/ SlotRaise(t)
        \/ SendReturn(t)

SpecLock == LockInit /\ [][LockNext]_vars

\* ------------------------------------------------------------ C7 .. C9
\* thread t is inside the with block of a send()
Inside(t) == \E k \in 1..Len(stack[t]) : stack[t][k].at # "waiting"

Blocked(t) == Depth_(t) > 0 /\ TopFrame(t).at = "waiting"

\* C7: at most one thread is inside send() of any signal; a thread inside
\* send() enters a nested send() without blocking; the lock stays with a
\* thread while it is inside its outermost send(), so another thread waits.
C7_OneSenderAtATime ==
    /\ \A t1, t2 \in Threads : (Inside(t1) /\ Inside(t2)) => t1 = t2
    /\ \A t \in Threads : Inside(t) => lock_owner = t
    /\ \A t \in Threads : (Blocked(t) /\ lock_owner = t) => ENABLED Acquire(t)
    /\ \A t \in Threads :
        (Blocked(t) /\ lock_owner \notin {t, NoThread}) => ~ENABLED Acquire(t)

\* one thread has re-entered send() from a slot while the other one waits
C7_Witness ==
    \E t1, t2 \in Threads :
        /\ t1 # t2
        /\ Len(stack[t1]) = 2
        /\ stack[t1][1].at = "in_slot" /\ stack[t1][2].at = "in_slot"
        /\ stack[t1][1].sig # stack[t1][2].sig
        /\ Blocked(t2)

NoDuplicates(lst) ==
    \A i, j \in 1..Len(lst) : lst[i] = lst[j] => i = j

SignalFrames == {stack["recv_thread"][k] : k \in 1..Len(stack["recv_thread"])}

\* C8: a send() invokes the connected slots once each in the order of their
\* connection, whether or not earlier slots raised: the slots invoked so far
\* are a prefix of _slots, and all of _slots when the loop is over.
C8_EverySlotInOrder ==
    \A f \in SignalFrames :
        /\ NoDuplicates(slots[f.sig])
        /\ Len(f.called) <= Len(slots[f.sig])
        /\ f.called = SubSeq(slots[f.sig], 1, Len(f.called))
        /\ loop_done(f) => f.called = slots[f.sig]

\* a send() is about to return after two slots that both raised
C8_Witness ==
    \E f \in SignalFrames :
        loop_done(f) /\ Len(f.called) = 2 /\ ~f.received

\* C9 as claimed: send() returns True exactly when it had a slot to invoke,
\* whether or not the slots raised.
C9_TrueIffConnected ==
    last.ret = (last.n > 0)

\* C9 amended: send() returns True exactly when a slot returned without
\* raising (False when no slot is connected and when every slot raised);
\* BaseObject.debug writes to the logger exactly when its send() returned
\* False.
C9_TrueIffReceived ==
    /\ last.ret = last.ok
    /\ last.n = 0 => ~last.ret
    /\ last.logged = (last.debug /\ ~last.ret)

\* BaseObject.debug wrote to the logger although a slot was connected
C9_Witness ==
    last.debug /\ last.n > 0 /\ ~last.ret /\ last.logged

\* ------------------------------------------------------------ transport
\* time.sleep(5) of both _recv_thread
sleep_seconds == 5

\* What socket.recv() returns, as the chunks the read loops tell apart: a
\* frame is a sequence of chunks, "{" the first character of a JSON text,
\* "x" any other text, "2::" and "4::/mtgox:" the Socket.IO prefixes.
\* NoneFrame stands for the None that recv() returns for a close frame of
\* the peer; it is not a string and every subscript of it raises.
NoneFrame == <<"None">>

Frames_ ==
    {<<>>, <<"{">>, <<"x">>, <<"2::">>, <<"4::/mtgox:">>,
     <<"4::/mtgox:", "{">>, <<"4::/mtgox:", "x">>}

\* loop1 of WebsocketClient._recv_thread on one frame: the subscript
\* str_json[0] raises TypeError on None and IndexError on the empty string
websocket_loop(m) ==
    IF m = NoneFrame THEN "TypeError"
    ELSE IF Len(m) = 0 THEN "IndexError"
    ELSE IF m[1] = "{" THEN "dispatched"
    ELSE "ignored"

\* loop1 of SocketIOClient._recv_thread on one frame
socketio_loop(m) ==
    IF m = NoneFrame THEN "TypeError"
    ELSE IF m = <<"2::">> THEN "pong"
    ELSE IF Len(m) > 0 /\ m[1] = "4::/mtgox:"
        THEN IF Len(Tail(m)) = 0 THEN "IndexError"
             ELSE IF Tail(m)[1] = "{" THEN "dispatched"
             ELSE "ignored"
    ELSE "ignored"

\* mutant: the handler leaves the socket as it is
handler_close_mut(sock) == sock

\* if self.socket: self.socket.close()
handler_close(sock) == IF sock = "None" THEN "None" ELSE "closed"

\* the except clause is entered
Fail ==
    /\ conn_pc' = "except"
    /\ UNCHANGED <<cfg, socket, nopen, slept, retry, sub_i, sent, started, rx>>

\* SocketIOClient: urllib2.urlopen of /socket.io/1, read, close, split
HttpHandshake ==
    /\ conn_pc = "connect"
    /\ ~cfg.websocket
    /\ \/ /\ conn_pc' = "ws_connect"
          /\ UNCHANGED <<cfg, socket, nopen, slept, retry, sub_i, sent,
                         started, rx>>
       \/ Fail
    /\ UNCHANGED dispatchVars
    /\ UNCHANGED otherThanConn

\* self.socket = websocket.create_connection(ws_url)
CreateConnection ==
    /\ \/ conn_pc = "connect" /\ cfg.websocket
       \/ conn_pc = "ws_connect"
    /\ \/ /\ socket' = "open"
          /\ nopen' = nopen + 1
          /\ conn_pc' = IF cfg.websocket THEN "subscribe" ELSE "hello"
          /\ sub_i' = 1
          /\ sent' = <<>>
          /\ started' = {}
          /\ rx' = "none"
          /\ UNCHANGED <<cfg, slept, retry>>
       \/ Fail
    /\ UNCHANGED dispatchVars
    /\ UNCHANGED otherThanConn

\* SocketIOClient: send("1::/mtgox") and the two recv() of the acks
Hello ==
    /\ conn_pc = "hello"
    /\ \/ /\ conn_pc' = "subscribe"
          /\ UNCHANGED <<cfg, socket, nopen, slept, retry, sub_i, sent,
                         started, rx>>
       \/ Fail
    /\ UNCHANGED dispatchVars
    /\ UNCHANGED otherThanConn

\* mutant: the ticker subscription is sent first
SubscribeSteps_mut ==
    <<[op |-> "send", what |-> "ticker"],
      [op |-> "send", what |-> "depth"],
      [op |-> "send", what |-> "trades"],
      [op |-> "call", what |-> "info"],
      [op |-> "call", what |-> "orders"],
      [op |-> "call", what |-> "idkey"],
      [op |-> "thread", what |-> "fulldepth"],
      [op |-> "thread", what |-> "history"]>>

\* the statements of channel_subscribe, in order
SubscribeSteps ==
    <<[op |-> "send", what |-> "depth"],
      [op |-> "send", what |-> "ticker"],
      [op |-> "send", what |-> "trades"],
      [op |-> "call", what |-> "info"],
      [op |-> "call", what |-> "orders"],
      [op |-> "call", what |-> "idkey"],
      [op |-> "thread", what |-> "fulldepth"],
      [op |-> "thread", what |-> "history"]>>

\* one statement of channel_subscribe: a send over the socket (it may
\* raise), a signed call (nothing without the secret), a snapshot thread
\* (if configured); after the last one the read loop starts
ChannelSubscribe ==
    /\ conn_pc = "subscribe"
    /\ LET st == SubscribeSteps[sub_i]
           sends == st.op = "send" \/ (st.op = "call" /\ cfg.secret)
           starts == st.op = "thread" /\
                     IF st.what = "fulldepth" THEN cfg.load_fulldepth
                     ELSE cfg.load_history
       IN \/ /\ sent' = IF sends THEN Append(sent, st.what) ELSE sent
             /\ started' = IF starts THEN started \cup {st.what} ELSE started
             /\ sub_i' = IF sub_i = Len(SubscribeSteps) THEN 1 ELSE sub_i + 1
             /\ conn_pc' = IF sub_i = Len(SubscribeSteps) THEN "recv"
                           ELSE "subscribe"
             /\ UNCHANGED <<cfg, socket, nopen, slept, retry, rx>>
          \/ sends /\ Fail
    /\ UNCHANGED dispatchVars
    /\ UNCHANGED otherThanConn

\* ------------------------------------------------------------ slot_recv
\* The JSON texts that reach slot_recv: text that json.loads rejects, or an
\* object, given as a record of the keys the handlers look at.  The
\* currency of the engine is "USD".
Msgs ==
    {[op |-> "remark", success |-> s, id |-> i] :
        s \in BOOLEAN, i \in BootIds \cup {"order_add"}}
    \cup {[op |-> "remark", success |-> FALSE],
          [op |-> "remark", id |-> "orders"],
          [op |-> "result", id |-> "idkey", result |-> "key"],
          [op |-> "result", result |-> "key"],
          [op |-> "private", depth |-> [type_str |-> "ask"]],
          [op |-> "private", depth |-> [currency |-> "EUR"]],
          [op |-> "private", depth |-> [currency |-> "USD"]],
          [op |-> "private", wallet |-> "w"]}

Bodies == {[json |-> FALSE]} \cup {[json |-> TRUE, msg |-> m] : m \in Msgs}

\* the two texts that SpecConn dispatches: an unparsable one and a remark
\* that needs no action
TransportBodies ==
    {[json |-> FALSE],
     [json |-> TRUE, msg |-> [op |-> "remark", success |-> TRUE,
                              id |-> "info"]]}

Has(msg, k) == k \in DOMAIN msg

\* what handling does: raised (an exception left the handler), the sends
\* on the client in order (signed calls and plain frames), the signals and
\* state changes of the handler
NoPlan == [raised |-> FALSE, sends |-> <<>>, signals |-> <<>>]
Raises == [raised |-> TRUE, sends |-> <<>>, signals |-> <<>>]

\* statements in sequence: nothing runs after an exception
Then(p, q) ==
    IF p.raised THEN p
    ELSE [raised |-> q.raised, sends |-> p.sends \o q.sends,
          signals |-> p.signals \o q.signals]

SignedCall(endpoint, reqid, why) ==
    [NoPlan EXCEPT !.sends = <<[kind |-> "signed", call |-> endpoint,
                                id |-> reqid, why |-> why]>>]

\* Gox._on_depth
on_depth(msg) ==
    LET d == msg.depth IN
    IF ~Has(d, "currency") THEN Raises
    ELSE IF d.currency # "USD" THEN NoPlan
    ELSE IF ~({"type_str", "price_int", "volume_int", "total_volume_int"}
              \subseteq DOMAIN d) THEN Raises
    ELSE [NoPlan EXCEPT !.signals = <<"signal_depth">>]

\* Gox._on_call_result
on_call_result(msg) ==
    IF ~Has(msg, "id") THEN Raises
    ELSE IF msg.id = "idkey"
        THEN [NoPlan EXCEPT !.sends = <<[kind |-> "plain", call |-> "",
                                        id |-> "subscribe_key",
                                        why |-> "idkey"]>>]
    ELSE IF msg.id = "orders" THEN [NoPlan EXCEPT !.signals = <<"own_orders">>]
    ELSE IF msg.id = "info" THEN [NoPlan EXCEPT !.signals = <<"signal_wallet">>]
    ELSE NoPlan

\* Gox._on_wallet
on_wallet == SignedCall("private/info", "info", "wallet")

\* mutant: the resend of private/orders goes out under the reqid info
resend_orders_mut == SignedCall("private/orders", "info", "resend")

resend_orders == SignedCall("private/orders", "orders", "resend")

\* the remark part of slot_recv
on_remark(msg) ==
    IF Has(msg, "op") /\ msg.op = "remark"
    THEN IF Has(msg, "success") /\ Has(msg, "id") /\ ~msg.success
         THEN Then(Then(
                IF msg.id = "idkey"
                THEN SignedCall("private/idkey", "idkey", "resend")
                ELSE NoPlan,
                IF msg.id = "info"
                THEN SignedCall("private/info", "info", "resend")
                ELSE NoPlan),
                IF msg.id = "orders" THEN resend_orders ELSE NoPlan)
         ELSE NoPlan
    ELSE NoPlan

\* Gox.slot_recv up to its except clause, for messages without ticker,
\* trade and user_order
slot_recv(body) ==
    IF ~body.json THEN Raises
    ELSE LET msg == body.msg IN
         Then(Then(Then(
            IF Has(msg, "depth") THEN on_depth(msg) ELSE NoPlan,
            IF Has(msg, "result") THEN on_call_result(msg) ELSE NoPlan),
            IF Has(msg, "wallet") THEN on_wallet ELSE NoPlan),
            on_remark(msg))

\* the sends that reach the socket: send_signed_call returns early
\* without the secret
OnWire(sends) ==
    SelectSeq(sends, LAMBDA c : c.kind = "plain" \/ cfg.secret)

\* mutant: the except clause of slot_recv logs nothing
except_logs_mut(raised) == FALSE

\* except Exception: self.debug(traceback.format_exc())
except_logs(raised) == raised

\* signal_recv.send(str_json) with Gox.slot_recv as the slot: the handlers
\* run, every socket.send of theirs succeeds (wire_ok) or the first one
\* raises, and the except clause of slot_recv logs the traceback of
\* whatever was raised
Dispatch(body, wire_ok) ==
    LET plan == slot_recv(body)
        wire == OnWire(plan.sends)
        broke == Len(wire) > 0 /\ ~wire_ok
        out == IF broke THEN <<>> ELSE wire
    IN /\ Len(wire) = 0 => wire_ok
       /\ \A i \in BootIds :
            (\E k \in 1..Len(wire) : wire[k].why = "resend" /\ wire[k].id = i)
                => resends[i] < MaxResends
       /\ dsp' = [body |-> body,
                  calls |-> SelectSeq(plan.sends,
                                      LAMBDA c : c.kind = "signed"),
                  wire |-> out,
                  traceback |-> except_logs(plan.raised \/ broke)]
       /\ resends' =
            [i \in BootIds |->
                resends[i] + Len(SelectSeq(out,
                    LAMBDA c : c.why = "resend" /\ c.id = i))]
       /\ rx' = "dispatched"
       /\ UNCHANGED <<conn_pc, cfg, socket, nopen, slept, retry, sub_i,
                      sent, started>>

\* one round of loop1: recv() raises (an error, or the peer went away
\* without a close frame), or returns a frame that the loop
\* dispatches on signal_recv, ignores, answers with a pong (the send may
\* raise) or fails on, which rx then names; the dispatched texts are drawn
\* from bodies
Recv(bodies) ==
    /\ conn_pc = "recv"
    /\ \/ Fail /\ UNCHANGED dispatchVars
       \/ \E m \in Frames_ \cup {NoneFrame} :
            LET did == IF cfg.websocket THEN websocket_loop(m)
                       ELSE socketio_loop(m)
            IN IF did \in {"TypeError", "IndexError"}
               THEN /\ conn_pc' = "except"
                    /\ rx' = did
                    /\ UNCHANGED <<cfg, socket, nopen, slept, retry, sub_i,
                                   sent, started>>
                    /\ UNCHANGED dispatchVars
               ELSE IF did = "dispatched"
               THEN \E body \in bodies, wire_ok \in BOOLEAN :
                        Dispatch(body, wire_ok)
               ELSE \/ /\ rx' = did
                       /\ UNCHANGED <<conn_pc, cfg, socket, nopen, slept,
                                      retry, sub_i, sent, started>>
                       /\ UNCHANGED dispatchVars
                    \/ did = "pong" /\ Fail /\ UNCHANGED dispatchVars
    /\ UNCHANGED otherThanConn

\* except Exception: debug, close the socket if there is one, then sleep.
\* close() of the websocket library swallows its own errors and closing a
\* closed socket does nothing.
Handler ==
    /\ conn_pc = "except"
    /\ socket' = handler_close(socket)
    /\ nopen' = IF socket = "open" /\ socket' = "closed" THEN nopen - 1
                ELSE nopen
    /\ slept' = 0
    /\ retry' = TRUE
    /\ conn_pc' = "sleep"
    /\ dsp' = NoDispatch
    /\ resends' = [i \in BootIds |-> 0]
    /\ UNCHANGED <<cfg, sub_i, sent, started, rx>>
    /\ UNCHANGED otherThanConn

\* a second of time.sleep passes
SleepTick ==
    /\ conn_pc = "sleep"
    /\ slept < sleep_seconds
    /\ slept' = slept + 1
    /\ UNCHANGED <<conn_pc, cfg, socket, nopen, retry, sub_i, sent, started,
                   rx>>
    /\ UNCHANGED dispatchVars
    /\ UNCHANGED otherThanConn

\* time.sleep returns: loop 0 starts over
Wake ==
    /\ conn_pc = "sleep"
    /\ slept = sleep_seconds
    /\ conn_pc' = "connect"
    /\ UNCHANGED <<cfg, socket, nopen, slept, retry, sub_i, sent, started,
                   rx>>
    /\ UNCHANGED dispatchVars
    /\ UNCHANGED otherThanConn

RecvThread(bodies) ==
    \/ HttpHandshake
    \/ CreateConnection
    \/ Hello
    \/ ChannelSubscribe
    \/ Recv(bodies)
    \/ Handler
    \/ SleepTick
    \/ Wake

ConnNext == RecvThread(TransportBodies)

\* the client after construction, in any configuration
ClientInit ==
    /\ BookInit
    /\ SignalInit
    /\ ConnInit
    /\ CallInit

SpecConn == ClientInit /\ [][ConnNext]_vars

\* the receive thread is a thread of its own and keeps being scheduled
FairSpecConn == SpecConn /\ WF_vars(ConnNext)

\* the receive thread with the dispatcher's messages, all snapshots wanted
DispatchInit ==
    /\ ClientInit
    /\ cfg.load_fulldepth /\ cfg.load_history

DispatchNext == RecvThread(Bodies)

SpecDispatch == DispatchInit /\ [][DispatchNext]_vars

\* ------------------------------------------------------------ C10
\* C10: in both variants a failure of connecting, handshaking, subscribing
\* or receiving (an exception, or the peer closing) makes the receive thread
\* close the socket it opened and sleep 5 seconds, and a new connection
\* attempt follows; the thread always has a next step, and no socket is
\* opened while the previous one is open.
C10_CloseSleepReconnect ==
    /\ [](nopen <= 1)
    /\ [](ENABLED ConnNext)
    /\ [](conn_pc = "sleep" => (socket # "open" /\ nopen = 0))
    /\ []((conn_pc = "connect" /\ retry) => (slept = 5 /\ nopen = 0))
    /\ (conn_pc = "except") ~> (conn_pc = "connect")
    /\ (conn_pc = "except") ~> (conn_pc = "sleep" /\ slept = 5)

\* after a failure with an open socket the thread is connected again
C10_Witness ==
    retry /\ slept = 5 /\ conn_pc = "recv" /\ socket = "open" /\ nopen = 1

\* ------------------------------------------------------------ C11
IsPrefix(s, t) == Len(s) <= Len(t) /\ SubSeq(t, 1, Len(s)) = s

SubscribeOrder ==
    <<"depth", "ticker", "trades">> \o
    (IF cfg.secret THEN <<"info", "orders", "idkey">> ELSE <<>>)

SnapshotsWanted ==
    {w \in {"fulldepth", "history"} :
        IF w = "fulldepth" THEN cfg.load_fulldepth ELSE cfg.load_history}

\* C11: on every connection, of either variant, what channel_subscribe has
\* sent is a prefix of depth, ticker, trades, then (with credentials) info,
\* orders, idkey; only configured snapshot fetches are started; and by the
\* time the read loop runs or a frame has been dispatched all of it is done.
C11_SubscribeBeforeDispatch ==
    /\ IsPrefix(sent, SubscribeOrder)
    /\ started \subseteq SnapshotsWanted
    /\ (conn_pc = "recv" \/ rx = "dispatched") =>
            (sent = SubscribeOrder /\ started = SnapshotsWanted)
    /\ conn_pc \in {"hello", "subscribe"} => rx = "none"

\* a reconnect with credentials has dispatched a frame
C11_Witness ==
    /\ retry /\ conn_pc = "recv" /\ rx = "dispatched"
    /\ cfg.secret /\ Len(sent) = 6 /\ started = {"fulldepth"}

\* ------------------------------------------------------------ C12
\* a remark with success = false and this id
FailedRemark(body, i) ==
    /\ body.json
    /\ Has(body.msg, "op") /\ body.msg.op = "remark"
    /\ Has(body.msg, "success") /\ ~body.msg.success
    /\ Has(body.msg, "id") /\ body.msg.id = i

Endpoint(i) ==
    CASE i = "idkey" -> "private/idkey"
      [] i = "info" -> "private/info"
      [] i = "orders" -> "private/orders"

Resends(sends) == SelectSeq(sends, LAMBDA c : c.why = "resend")

\* C12: the dispatch of a remark with success = false and a bootstrap id
\* makes exactly one signed call, with that reqid and its endpoint (it
\* reaches the socket when the secret is known and the socket takes it);
\* the dispatch of any other frame (a remark with success = true, with
\* another id or without id or success, a result frame) resends nothing.
C12_ResendOnFailedRemark ==
    LET b == dsp.body
        one(i) == <<[kind |-> "signed", call |-> Endpoint(i), id |-> i,
                     why |-> "resend"]>>
    IN /\ \A i \in BootIds : FailedRemark(b, i) =>
            /\ Resends(dsp.calls) = one(i)
            /\ dsp.wire = IF cfg.secret /\ ~dsp.traceback THEN one(i)
                          ELSE <<>>
       /\ (\A i \in BootIds : ~FailedRemark(b, i)) =>
            (Resends(dsp.calls) = <<>> /\ Resends(dsp.wire) = <<>>)

\* the failed remark for orders was answered on the socket
C12_Witness ==
    /\ rx = "dispatched" /\ conn_pc = "recv"
    /\ FailedRemark(dsp.body, "orders")
    /\ Len(dsp.wire) = 1 /\ dsp.wire[1].id = "orders"

\* ------------------------------------------------------------ C13
\* C13: a bootstrap call is resent at most once per connection, also when
\* the resent call is answered by another failing remark.
C13_AtMostOneResend == \A i \in BootIds : resends[i] <= 1

\* ------------------------------------------------------------ C18
\* a text that json.loads rejects, or an object without a field that its
\* handler reads
Malformed(body) ==
    \/ ~body.json
    \/ Has(body.msg, "result") /\ ~Has(body.msg, "id")
    \/ Has(body.msg, "depth") /\
        (~Has(body.msg.depth, "currency") \/
         (body.msg.depth.currency = "USD" /\
          ~Has(body.msg.depth, "price_int")))

\* a step of the read loop that dispatches a malformed frame
DispatchedMalformed ==
    /\ conn_pc = "recv" /\ rx' = "dispatched"
    /\ dsp' # dsp /\ Malformed(dsp'.body)

\* C18: the dispatch of a malformed frame logs a traceback, sends nothing
\* and leaves the thread in its read loop with the socket open, and in the
\* read loop the next frame can always be dispatched.
C18_MalformedFrameDropped ==
    /\ [][DispatchedMalformed =>
            (/\ dsp'.traceback /\ dsp'.wire = <<>> /\ dsp'.calls = <<>>
             /\ conn_pc' = "recv"
             /\ socket' = "open" /\ nopen' = nopen /\ slept' = slept
             /\ resends' = resends)]_vars
    /\ [](conn_pc = "recv" =>
            ENABLED (\E body \in Bodies : Dispatch(body, TRUE)))

\* a message without a field its handler needs was dispatched after a
\* reconnect
C18_Witness ==
    /\ retry /\ conn_pc = "recv" /\ rx = "dispatched" /\ socket = "open"
    /\ dsp.body.json /\ Malformed(dsp.body) /\ dsp.traceback

\* ------------------------------------------------------------ Gox.order
\* What http_signed_call hands back: None without the secret; otherwise
\* urlopen raises, or json.load gives the reply object of the server.  A
\* successful reply carries the oid of the order.
NoneReply == [kind |-> "None"]
NetworkError == [kind |-> "raise"]

JsonReplies(oids) ==
    {[kind |-> "json", obj |-> o] :
        o \in {[result |-> "success", return |-> x] : x \in oids}
              \cup {[result |-> "error", error |-> "e"], [error |-> "e"]}}

\* "result" in res and res["result"] == "success", for a reply object
reply_success(res) == Has(res.obj, "result") /\ res.obj.result = "success"

\* mutant: a reply that is no success raises
after_call_mut(res) ==
    IF res.kind = "None" THEN "TypeError"
    ELSE IF reply_success(res) THEN "success"
    ELSE "TypeError"

\* the if of Gox.order and Gox.cancel: "in" raises a TypeError on None
after_call(res) ==
    IF res.kind = "None" THEN "TypeError"
    ELSE IF reply_success(res) THEN "success"
    ELSE "failed"

\* signal_userorder.send(...) with OrderBook.slot_user_order as the slot,
\* which ends with one signal_changed
UserOrder(price, volume, typ, oid, status) ==
    /\ owns' = user_order_update(owns, price, volume, typ, oid, status)
    /\ ev' = [kind |-> "user_order", changed |-> owns' # owns]
    /\ emitted' = 1

RECURSIVE loop_run(_, _, _, _, _)
\* The for loop of cancel_by_price (by = "price") and cancel_by_type from
\* index i down (indices count from 1 here), on the list as it is now, up
\* to the next cancel: the index read is beyond the list, an order to
\* cancel is found, or the loop is done.  ftyp "None" is typ=None.
loop_run(lst, i, by, ftyp, fprice) ==
    IF i = 0 THEN [kind |-> "done", i |-> 0, oid |-> ""]
    ELSE IF i > Len(lst) THEN [kind |-> "index", i |-> i, oid |-> ""]
    ELSE LET order == lst[i]
             hit == IF by = "price" THEN order.price = fprice
                    ELSE ftyp = "None" \/ ftyp = order.typ
         IN IF hit /\ order.oid # ""
            THEN [kind |-> "cancel", i |-> i, oid |-> order.oid]
            ELSE loop_run(lst, i - 1, by, ftyp, fprice)

\* the caller thread runs the loop of c from index i on the list lst until
\* it blocks in the HTTP call of a cancel, fails or is done; then_ is the
\* event to record when it goes on into a cancel
LoopOn(lst, c, i, then_) ==
    LET r == loop_run(lst, i, c.by, c.ftyp, c.fprice) IN
    CASE r.kind = "done" ->
            /\ call' = Idle
            /\ oev' = [NoEvent EXCEPT !.op = "cancel_by", !.cause = "done"]
      [] r.kind = "index" ->
            /\ call' = Idle
            /\ oev' = [NoEvent EXCEPT !.op = "cancel_by", !.cause = "index",
                                      !.raised = TRUE, !.i = r.i,
                                      !.n = Len(lst)]
      [] r.kind = "cancel" ->
            IF cfg.secret
            THEN /\ call' = [c EXCEPT !.pc = "http", !.op = "cancel",
                                      !.oid = r.oid, !.i = r.i]
                 /\ oev' = then_
            ELSE /\ call' = Idle
                 /\ oev' = [NoEvent EXCEPT !.op = "cancel_by",
                                           !.cause = "no_secret",
                                           !.raised = TRUE]

Requested == [NoEvent EXCEPT !.op = "request"]

\* Gox.order(typ, price, volume) up to the HTTP request; without the
\* secret http_signed_call returns None at once
OrderCall(typ, price, volume) ==
    /\ call.pc = "idle"
    /\ IF cfg.secret
       THEN /\ call' = [Idle EXCEPT !.pc = "http", !.op = "order",
                                    !.typ = typ, !.price = price,
                                    !.volume = volume]
            /\ oev' = Requested
       ELSE /\ call' = Idle
            /\ oev' = [NoEvent EXCEPT !.op = "order", !.cause = "no_secret",
                          !.raised = after_call(NoneReply) = "TypeError"]
    /\ UNCHANGED <<owns, ev, emitted>>
    /\ UNCHANGED otherThanCall

\* Gox.cancel(oid) up to the HTTP request
CancelCall(oid) ==
    /\ call.pc = "idle"
    /\ IF cfg.secret
       THEN /\ call' = [Idle EXCEPT !.pc = "http", !.op = "cancel",
                                    !.oid = oid]
            /\ oev' = Requested
       ELSE /\ call' = Idle
            /\ oev' = [NoEvent EXCEPT !.op = "cancel", !.cause = "no_secret",
                          !.raised = after_call(NoneReply) = "TypeError"]
    /\ UNCHANGED <<owns, ev, emitted>>
    /\ UNCHANGED otherThanCall

\* cancel_by_price(price) and cancel_by_type(typ) up to their first cancel
CancelBy(by, ftyp, fprice) ==
    /\ call.pc = "idle"
    /\ LoopOn(owns, [Idle EXCEPT !.by = by, !.ftyp = ftyp, !.fprice = fprice],
              Len(owns), Requested)
    /\ UNCHANGED <<owns, ev, emitted>>
    /\ UNCHANGED otherThanCall

\* the HTTP call of Gox.order ends: urlopen raises, or the reply is read
\* and order emits the pending order, or logs, and returns
OrderReply(res) ==
    /\ call.pc = "http" /\ call.op = "order"
    /\ call' = Idle
    /\ LET e == [NoEvent EXCEPT !.op = "order", !.res = res, !.http = 1]
           out == IF res.kind = "raise" THEN "network" ELSE after_call(res)
       IN CASE out = "success" ->
                /\ UserOrder(call.price, call.volume, call.typ,
                             res.obj.return, "pending")
                /\ oev' = [e EXCEPT !.cause = "success",
                              !.oid = res.obj.return, !.ok = TRUE,
                              !.sent = <<Order(call.price, call.volume,
                                  call.typ, res.obj.return, "pending")>>]
            [] out = "failed" ->
                /\ oev' = [e EXCEPT !.cause = "failed"]
                /\ UNCHANGED <<owns, ev, emitted>>
            [] OTHER ->
                /\ oev' = [e EXCEPT !.cause = out, !.raised = TRUE]
                /\ UNCHANGED <<owns, ev, emitted>>
    /\ UNCHANGED otherThanCall

\* the HTTP call of Gox.cancel ends; a cancel made by cancel_by_* is
\* followed by the rest of its loop.  The server returns the oid it was
\* asked to cancel.
CancelReply(res) ==
    /\ call.pc = "http" /\ call.op = "cancel"
    /\ (res.kind = "json" /\ reply_success(res)) => res.obj.return = call.oid
    /\ LET inloop == call.by # "none"
           e == [NoEvent EXCEPT !.op = "cancel", !.res = res, !.http = 1]
           out == IF res.kind = "raise" THEN "network" ELSE after_call(res)
       IN CASE out = "success" ->
                /\ UserOrder(0, 0, "", res.obj.return, "removed")
                /\ LET e1 == [e EXCEPT !.cause = "success", !.ok = TRUE,
                                !.sent = <<Order(0, 0, "", res.obj.return,
                                                 "removed")>>]
                   IN IF inloop THEN LoopOn(owns', call, call.i - 1, e1)
                      ELSE call' = Idle /\ oev' = e1
            [] out = "failed" ->
                /\ UNCHANGED <<owns, ev, emitted>>
                /\ LET e1 == [e EXCEPT !.cause = "failed"]
                   IN IF inloop THEN LoopOn(owns, call, call.i - 1, e1)
                      ELSE call' = Idle /\ oev' = e1
            [] OTHER ->
                /\ call' = Idle
                /\ oev' = [e EXCEPT !.cause = out, !.raised = TRUE,
                             !.op = IF inloop THEN "cancel_by" ELSE "cancel"]
                /\ UNCHANGED <<owns, ev, emitted>>
    /\ UNCHANGED otherThanCall

\* the receive thread dispatches a user_order message: one with a price
\* (status open), or one without (removed); the event keeps its oid and
\* its status
UserOrderPush(price, volume, typ, oid, status) ==
    /\ IF status = "removed" THEN UserOrder(0, 0, "", oid, "removed")
       ELSE UserOrder(price, volume, typ, oid, status)
    /\ oev' = [NoEvent EXCEPT !.op = "push", !.oid = oid, !.cause = status]
    /\ UNCHANGED call
    /\ UNCHANGED otherThanCall

\* the filters of cancel_by_type and cancel_by_price
TypFilters == Sides \cup {"None"}

CallNext ==
    \/ \E typ \in Sides, price \in Prices, volume \in Vols :
            OrderCall(typ, price, volume)
    \/ \E oid \in Oids : CancelCall(oid)
    \/ \E ftyp \in TypFilters : CancelBy("type", ftyp, 0)
    \/ \E fprice \in Prices : CancelBy("price", "", fprice)
    \/ \E res \in JsonReplies(Oids) \cup {NetworkError} : OrderReply(res)
    \/ \E res \in JsonReplies(Oids) \cup {NetworkError} : CancelReply(res)
    \/ \E price \in Prices, volume \in Vols, typ \in Sides, oid \in Oids,
          status \in Statuses \ {"removed"} :
            UserOrderPush(price, volume, typ, oid, status)
    \/ \E oid \in Oids : UserOrderPush(0, 0, "", oid, "removed")

\* the engine with or without the secret
CallsInit ==
    /\ ClientInit
    /\ ~cfg.websocket /\ cfg.load_fulldepth /\ cfg.load_history

SpecCalls == CallsInit /\ [][CallNext]_vars

\* Gox.order, Gox.cancel and the pushes alone, with two prices and two
\* volumes: the sources of signal_userorder
OwnPrices == {1, 2}
OwnVols == {1, 2}

OwnsNext ==
    \/ \E price \in OwnPrices, volume \in OwnVols :
            OrderCall("bid", price, volume)
    \/ \E oid \in Oids : CancelCall(oid)
    \/ \E res \in JsonReplies(Oids) \cup {NetworkError} : OrderReply(res)
    \/ \E res \in JsonReplies(Oids) \cup {NetworkError} : CancelReply(res)
    \/ \E price \in OwnPrices, volume \in OwnVols, oid \in Oids :
            UserOrderPush(price, volume, "bid", oid, "open")
    \/ \E oid \in Oids : UserOrderPush(0, 0, "", oid, "removed")

SpecOwns == CallsInit /\ [][OwnsNext]_vars

\* mutant: the loop ends with its first cancel
cancel_by_all_mut(lst, i, by, ftyp, fprice, done) ==
    LET r == loop_run(lst, i, by, ftyp, fprice) IN
    IF r.kind = "cancel"
    THEN [owns |-> user_order_update(lst, 0, 0, "", r.oid, "removed"),
          cancelled |-> Append(done, r.oid), kind |-> "done"]
    ELSE [owns |-> lst, cancelled |-> done, kind |-> r.kind]

RECURSIVE cancel_by_all(_, _, _, _, _, _)
\* cancel_by_price and cancel_by_type from index i down when no other
\* thread runs and every Gox.cancel succeeds: each cancel sends
\* signal_userorder with (0, 0, "", oid, "removed") before the loop goes
\* on; the own orders at the end, the oids cancelled in order, and how the
\* loop ended
cancel_by_all(lst, i, by, ftyp, fprice, done) ==
    LET r == loop_run(lst, i, by, ftyp, fprice) IN
    IF r.kind = "cancel"
    THEN cancel_by_all(user_order_update(lst, 0, 0, "", r.oid, "removed"),
                       r.i - 1, by, ftyp, fprice, Append(done, r.oid))
    ELSE [owns |-> lst, cancelled |-> done, kind |-> r.kind]

\* cancel_by_price(price) and cancel_by_type(typ) from call to return,
\* with the secret known and every HTTP call answered with success
CancelByAll(by, ftyp, fprice) ==
    /\ call.pc = "idle"
    /\ cfg.secret
    /\ LET run == cancel_by_all(owns, Len(owns), by, ftyp, fprice, <<>>) IN
       /\ owns' = run.owns
       /\ oev' = [NoEvent EXCEPT
                    !.op = "cancel_by", !.cause = run.kind,
                    !.raised = run.kind = "index",
                    !.sent = [k \in DOMAIN run.cancelled |->
                                Order(0, 0, "", run.cancelled[k], "removed")],
                    !.http = Len(run.cancelled), !.n = Len(owns)]
       /\ ev' = [kind |-> "user_order", changed |-> owns' # owns]
       /\ emitted' = Len(run.cancelled)
    /\ call' = Idle
    /\ UNCHANGED otherThanCall

\* pushes of own orders, also of one without oid, and the cancel loops
\* run alone
CancelNext ==
    \/ \E price \in OwnPrices, typ \in Sides, oid \in Oids \cup {""} :
            UserOrderPush(price, 1, typ, oid, "open")
    \/ \E ftyp \in TypFilters : CancelByAll("type", ftyp, 0)
    \/ \E fprice \in OwnPrices : CancelByAll("price", "", fprice)

SpecCancel == Init /\ [][CancelNext]_vars

\* ------------------------------------------------------------ orders
\* the entries of the result of private/orders: open bids of volume 1 at
\* price 1, in the currency of the engine or in another
OrderEntries ==
    [currency : Currencies, price : {[value_int |-> 1]},
     amount : {[value_int |-> 1]}, type : {"bid"}, oid : Oids,
     status : {"open"}]

OrderLists == UNION {[1..n -> OrderEntries] : n \in 0..MaxOrders}

\* mutant: the own orders are kept
reset_own_mut(lst) == lst

\* OrderBook.reset_own: self.owns = []
reset_own(lst) == <<>>

\* OrderBook.add_own: self.owns.append(order)
add_own(lst, order) == Append(lst, order)

RECURSIVE orders_run(_, _, _)
\* the for loop of _on_call_result over the result of private/orders, from
\* the own orders lst with n calls of add_own so far: the own orders that
\* it leaves, the calls of add_own, and whether it raised on an entry
\* without a key that it reads (currency first, the others only for an
\* order in the currency of the engine)
orders_run(lst, n, result) ==
    IF Len(result) = 0 THEN [owns |-> lst, added |-> n, raised |-> FALSE]
    ELSE LET order == result[1] IN
         IF "currency" \notin DOMAIN order
         THEN [owns |-> lst, added |-> n, raised |-> TRUE]
         ELSE IF order.currency # "USD"
         THEN orders_run(lst, n, Tail(result))
         ELSE IF ~({"price", "amount", "type", "oid", "status"}
                   \subseteq DOMAIN order)
         THEN [owns |-> lst, added |-> n, raised |-> TRUE]
         ELSE orders_run(add_own(lst, Order(order.price.value_int,
                                            order.amount.value_int,
                                            order.type, order.oid,
                                            order.status)),
                         n + 1, Tail(result))

\* the own orders after the loop
orders_loop(lst, result) == orders_run(lst, 0, result).owns

\* _on_call_result with id orders: reset_own and every add_own send
\* signal_changed once
OrdersResult(result) ==
    /\ owns' = orders_loop(reset_own(owns), result)
    /\ emitted' = 1 + Len(owns')
    /\ ev' = [kind |-> "orders", changed |-> owns' # owns]
    /\ oev' = [NoEvent EXCEPT !.op = "orders",
                              !.res = [kind |-> "orders", list |-> result]]
    /\ UNCHANGED call
    /\ UNCHANGED otherThanCall

\* results of private/orders and pushes of own orders, also of an order
\* without oid
OrdersNext ==
    \/ \E result \in OrderLists : OrdersResult(result)
    \/ \E price \in OwnPrices, oid \in Oids \cup {""} :
            UserOrderPush(price, 1, "bid", oid, "open")
    \/ \E oid \in Oids : UserOrderPush(0, 0, "", oid, "removed")

SpecOrders == CallsInit /\ [][OrdersNext]_vars

\* ------------------------------------------------------------ C14
OwnsWith(oid) == {k \in DOMAIN owns : owns[k].oid = oid}

\* the reply of the server says success
SuccessReply(res) ==
    res.kind = "json" /\ "result" \in DOMAIN res.obj /\
    res.obj.result = "success"

\* C14: when order/add replies with success, Gox.order emits
\* signal_userorder once, with its price, volume and side, the returned oid
\* and status pending, returns that oid, and the own orders then hold
\* exactly one order with that oid.
C14_OrderEmitsPending ==
    /\ []((oev.op = "order" /\ SuccessReply(oev.res)) =>
            /\ ~oev.raised
            /\ oev.oid = oev.res.obj.return
            /\ Len(oev.sent) = 1
            /\ oev.sent[1].oid = oev.oid /\ oev.sent[1].status = "pending"
            /\ Cardinality(OwnsWith(oev.oid)) = 1)
    /\ [][(call.op = "order" /\ oev'.op = "order" /\ SuccessReply(oev'.res))
            => (/\ oev'.sent[1].price = call.price
                /\ oev'.sent[1].volume = call.volume
                /\ oev'.sent[1].typ = call.typ)]_vars

\* an order returned the oid of an order that a push had added before
C14_Witness ==
    /\ oev.op = "order" /\ oev.cause = "success"
    /\ Len(owns) = 2 /\ owns[1].oid = oev.oid /\ owns[1].status = "pending"

\* ------------------------------------------------------------ C15
\* the server replied, and not with a success
FailureReply(res) == res.kind = "json" /\ ~SuccessReply(res)

\* C15: when the reply of order/add or order/cancel is no success, order
\* returns the empty oid and cancel returns false, without raising and
\* after one request; the step emits no signal_userorder and leaves the own
\* orders as they are, and a call from outside a cancel_by_* loop is over.
C15_FailureReturnsEmpty ==
    /\ []((oev.op \in {"order", "cancel"} /\ FailureReply(oev.res)) =>
            /\ ~oev.raised /\ ~oev.ok /\ oev.oid = ""
            /\ oev.sent = <<>> /\ oev.http = 1)
    /\ [][(call.pc = "http" /\ FailureReply(oev'.res)) =>
            (/\ owns' = owns /\ emitted' = emitted /\ ev' = ev
             /\ call.by = "none" => call' = Idle)]_vars

\* a cancel failed while two own orders were there
C15_Witness ==
    /\ oev.op = "cancel" /\ FailureReply(oev.res) /\ ~oev.raised
    /\ Len(owns) = 2 /\ call = Idle

\* ------------------------------------------------------------ C16
\* C16: without the secret, Gox.order and Gox.cancel return their failure
\* value without raising, make no HTTP request and emit nothing.
C16_NoSecretNoop ==
    (~cfg.secret /\ oev.op \in {"order", "cancel"}) =>
        (/\ ~oev.raised /\ ~oev.ok /\ oev.oid = ""
         /\ oev.http = 0 /\ oev.sent = <<>>)

\* ------------------------------------------------------------ C17
\* C17: a network error during the REST call of Gox.order or Gox.cancel
\* does not reach the caller as an exception.
C17_NetworkErrorNotRaised == oev.res = NetworkError => ~oev.raised

\* ------------------------------------------------------------ C19
\* C19: every index that the loop of cancel_by_price and cancel_by_type
\* reads is within the own orders (indices count from 1).
C19_IndexInBounds == oev.op = "cancel_by" => (oev.i <= oev.n /\ oev.cause # "index")

\* ------------------------------------------------------------ History
\* History(self, 60 * 15)
timeframe == 900

\* dates of trades: in the bucket of time 0, two in the bucket 900, and
\* one in the bucket 1800
Dates == {100, 900, 1000, 1800}
HistPrices == {1, 2}
HistVols == {1}
HistTrades == [date : Dates, price : HistPrices, volume : HistVols]
HistLists == UNION {[1..n -> HistTrades] : n \in 0..MaxTrades}

OHLCV(tim, opn, hig, low, cls, vol) ==
    [tim |-> tim, opn |-> opn, hig |-> hig, low |-> low, cls |-> cls,
     vol |-> vol]

\* OHLCV.update
update(c, price, volume) ==
    [c EXCEPT !.hig = IF price > @ THEN price ELSE @,
              !.low = IF price < @ THEN price ELSE @,
              !.cls = price,
              !.vol = @ + volume]

\* mutant: the date is not rounded down to its bucket
time_round_mut(date, tf) == date

\* int(date / self.timeframe) * self.timeframe, tf the History's timeframe
time_round(date, tf) == (date \div tf) * tf

\* mutant: the candles are kept
history_reset_mut(cs) == cs

\* self.candles = []
history_reset(cs) == <<>>

RECURSIVE fullhistory_loop(_, _, _, _)
\* the for loop of slot_fullhistory and the insert after it; _add_candle
\* inserts at index 0
fullhistory_loop(cs, tf, new_candle, history) ==
    IF Len(history) = 0 THEN <<new_candle>> \o cs
    ELSE LET trade == history[1]
             tr == time_round(trade.date, tf)
             opens == tr > new_candle.tim
             cs1 == IF opens /\ new_candle.tim > 0 THEN <<new_candle>> \o cs
                    ELSE cs
             nc == IF opens
                   THEN OHLCV(tr, trade.price, trade.price, trade.price,
                              trade.price, trade.volume)
                   ELSE new_candle
         IN fullhistory_loop(cs1, tf, update(nc, trade.price, trade.volume),
                             Tail(history))

slot_fullhistory(cs, tf, history) ==
    fullhistory_loop(history_reset(cs), tf, OHLCV(0, 0, 0, 0, 0, 0), history)

\* History.slot_trade for a trade that is not an own trade
slot_trade(cs, tf, date, price, volume) ==
    LET tr == time_round(date, tf)
        fresh == OHLCV(tr, price, price, price, price, volume)
    IN IF Len(cs) > 0
       THEN IF cs[1].tim = tr
            THEN [cs EXCEPT ![1] = update(cs[1], price, volume)]
            ELSE <<fresh>> \o cs
       ELSE <<fresh>>

\* signal_fullhistory with the trade list history
Fullhistory(history) ==
    /\ candles' = slot_fullhistory(candles, timeframe, history)
    /\ hev' = IF hev.kind = "fullhistory" /\ hev.list = history
              THEN [hev EXCEPT !.reps = 2]
              ELSE [kind |-> "fullhistory", list |-> history, reps |-> 1,
                    first |-> candles', sent |-> 1]
    /\ UNCHANGED otherThanHistory

\* History.slot_trade with (date, price, volume, own), of a History of
\* timeframe tf that keeps at most maxlen candles here: what it does to the
\* history; an own trade changes nothing
history_slot_trade(tf, maxlen, date, price, volume, own) ==
    /\ candles' = IF own THEN candles
                  ELSE slot_trade(candles, tf, date, price, volume)
    /\ Len(candles') <= maxlen
    /\ \A k \in DOMAIN candles' : candles'[k].vol <= MaxCandleVol
    /\ hev' = [NoHistoryEvent EXCEPT !.kind = "trade",
                                     !.sent = IF own THEN 0 ELSE 1]

\* signal_trade with one trade, received by the History alone
HistoryTrade(tf, maxlen, date, price, volume, own) ==
    /\ history_slot_trade(tf, maxlen, date, price, volume, own)
    /\ UNCHANGED otherThanHistory

HistoryNext ==
    \/ \E history \in HistLists : Fullhistory(history)
    \/ \E date \in Dates, price \in HistPrices, volume \in HistVols,
          own \in BOOLEAN :
            HistoryTrade(timeframe, MaxCandles, date, price, volume, own)

SpecHistory == Init /\ [][HistoryNext]_vars

\* ------------------------------------------------------------ C20
\* C20: when the same trade list is dispatched twice in a row via
\* fullhistory, the candles after the second dispatch are those after the
\* first, whatever the history held before the first.
C20_ReplayIdempotent ==
    (hev.kind = "fullhistory" /\ hev.reps = 2) => candles = hev.first

\* a list over two buckets was replayed on top of streamed candles
C20_Witness ==
    /\ hev.kind = "fullhistory" /\ hev.reps = 2
    /\ Len(hev.list) = 2 /\ Len(candles) = 2


\* ------------------------------------------------------------ _on_trade
\* the channel of the public trades; a trade on another channel is an own
\* trade
PublicTrades == "dbf1dee9-4f2e-4a08-8cb7-748919a71b21"
TradeChannels == {PublicTrades, "account"}
TradePrices == {1, 2}
TradeDates == {900, 1000}

\* mutant: every trade is taken for a public one
is_own_mut(channel) == FALSE

\* own = False on the public trade channel, True on any other
is_own(channel) == channel # PublicTrades

\* Gox._on_trade: a trade in another currency is dropped; otherwise
\* signal_trade is sent to History.slot_trade and OrderBook.slot_trade
OnTrade(channel, price_currency, date, price, volume) ==
    IF price_currency # "USD" THEN UNCHANGED vars
    ELSE /\ history_slot_trade(timeframe, MaxCandles, date, price, volume,
                               is_own(channel))
         /\ book_slot_trade(price, volume, is_own(channel))
         /\ UNCHANGED <<signalVars, connVars, callVars, goxVars>>

\* the sides of the snapshots here: ascending, over TradePrices, volume 1
TradeSnapshots ==
    {s \in UNION {[1..n -> [price : TradePrices, volume : {1}]] : n \in 0..2} :
        Ascending(s)}

\* trades, depth events, snapshots and pushes of own orders
TradeNext ==
    \/ \E channel \in TradeChannels, price_currency \in Currencies,
          date \in TradeDates, price \in TradePrices :
            OnTrade(channel, price_currency, date, price, 1)
    \/ \E typ \in Sides, price \in TradePrices, total_vol \in {0, 1} :
            Depth(typ, price, total_vol)
    \/ \E sa \in TradeSnapshots : FulldepthAsks(sa)
    \/ \E sb \in TradeSnapshots : FulldepthBids(sb)
    \/ \E price \in TradePrices, status \in Statuses :
            /\ book_pc = "idle"
            /\ UserOrderPush(price, 1, "bid", "o1", status)

SpecTrade == Init /\ [][TradeNext]_vars

\* ------------------------------------------------------------ Rollover
\* a History constructed with timeframe 60 that receives streamed trades:
\* the dates 1000, 1020, 1059 and 1060 (buckets 960, 1020, 1020, 1020) and
\* 1080 (bucket 1080), at most MaxStream candles
S5 == [timeframe |-> 60, dates |-> {1000, 1020, 1059, 1060, 1080},
       prices |-> {10, 12}, volumes |-> {1, 2}]

RolloverNext ==
    \E date \in S5.dates, price \in S5.prices, volume \in S5.volumes,
       own \in BOOLEAN :
        HistoryTrade(S5.timeframe, MaxStream, date, price, volume, own)

SpecRollover == Init /\ [][RolloverNext]_vars

\* ------------------------------------------------------------ C21
\* C21 as claimed: after any sequence of public trades and fullhistory
\* snapshots the open times of candles are strictly decreasing along the
\* list (newest at index 0, no bucket twice).
C21_CandlesDecreasing ==
    \A i \in 1..(Len(candles) - 1) : candles[i].tim > candles[i + 1].tim


\* ------------------------------------------------------------ C22
\* the trades of lst fed one by one, in list order, to the streaming handler
RECURSIVE Streamed(_, _, _)
Streamed(cs, tf, lst) ==
    IF Len(lst) = 0 THEN cs
    ELSE Streamed(slot_trade(cs, tf, lst[1].date, lst[1].price,
                             lst[1].volume), tf, Tail(lst))

Chronological(lst) ==
    \A i \in 1..(Len(lst) - 1) : lst[i].date <= lst[i + 1].date

\* C22 as claimed: for a trade list in chronological order the candles left
\* by a fullhistory snapshot equal, field by field, the candles obtained
\* from an empty History by streaming the same trades in list order.
\* Stated here for the non-empty lists whose trades are all dated at or
\* after the first timeframe boundary.
C22_SnapshotEqualsStream ==
    (/\ hev.kind = "fullhistory" /\ Chronological(hev.list)
     /\ Len(hev.list) > 0
     /\ \A i \in DOMAIN hev.list : hev.list[i].date >= timeframe)
        => candles = Streamed(<<>>, timeframe, hev.list)


\* ------------------------------------------------------------ C23
\* the newest candle has open time tim
Newest(tim) == Len(candles) > 0 /\ candles[1].tim = tim

\* the step is the public trade (date, price, volume) of scenario S5
S5Trade(date, price, volume) ==
    HistoryTrade(S5.timeframe, MaxStream, date, price, volume, FALSE)

UpdatedInPlace(price, volume) ==
    /\ Len(candles') = Len(candles)
    /\ candles' = [candles EXCEPT ![1] = update(candles[1], price, volume)]

Prepended(price, volume) ==
    /\ Len(candles') = Len(candles) + 1
    /\ candles'[1].opn = price /\ candles'[1].hig = price
    /\ candles'[1].low = price /\ candles'[1].cls = price
    /\ candles'[1].vol = volume
    /\ \A i \in DOMAIN candles : candles'[i + 1] = candles[i]

\* C23 as claimed (scenario S5, timeframe 60): while the newest candle is
\* the one of time 1000, the public trade date=1059 price=10 volume=1
\* updates it in place and prepends nothing, and the public trade date=1060
\* price=12 volume=2 prepends a candle with opn=hig=low=cls=12, vol=2.  No
\* candle of a History with timeframe 60 has the open time 1000 itself; the
\* candle of time 1000 is the one with open time 960.
C23_ScenarioS5 ==
    [][/\ (Newest(time_round(1000, S5.timeframe)) /\ S5Trade(1059, 10, 1))
            => UpdatedInPlace(10, 1)
       /\ (Newest(time_round(1000, S5.timeframe)) /\ S5Trade(1060, 12, 2))
            => Prepended(12, 2)]_vars

\* C23 amended (timeframe 60): while the newest candle has open time 1020,
\* the public trade date=1059 price=10 volume=1 updates it in place and
\* prepends nothing, and the public trade date=1080 price=12 volume=2
\* prepends a candle with open time 1080, opn=hig=low=cls=12, vol=2.
C23_RolloverAt1080 ==
    [][/\ (Newest(1020) /\ S5Trade(1059, 10, 1)) => UpdatedInPlace(10, 1)
       /\ (Newest(1020) /\ S5Trade(1080, 12, 2))
            => (Prepended(12, 2) /\ candles'[1].tim = 1080)]_vars

\* the candle opened at 1020 was updated by the trade at price 10 and the
\* candle of 1080 was prepended by the trade of price 12, volume 2
C23_Witness ==
    /\ hev.kind = "trade" /\ hev.sent = 1 /\ Len(candles) = 2
    /\ candles[1] = OHLCV(1080, 12, 12, 12, 12, 2)
    /\ candles[2].tim = 1020 /\ candles[2].cls = 10 /\ candles[2].vol = 2


\* ------------------------------------------------------------ C24
\* the levels of lst at price p, and the others, in list order
LevelsAt(lst, p) == SelectSeq(lst, LAMBDA o : o.price = p)
LevelsOff(lst, p) == SelectSeq(lst, LAMBDA o : o.price # p)

\* what a depth event (price p, total t) does to its ladder
DepthEffect(old, new, p, t) ==
    /\ LevelsOff(new, p) = LevelsOff(old, p)
    /\ t > 0 => (Len(LevelsAt(new, p)) = 1 /\ LevelsAt(new, p)[1].volume = t)
    /\ t = 0 => Len(LevelsAt(new, p)) = 0

\* C24: a depth event (side, p, t) leaves in the ladder of its side exactly
\* one level at p with volume t when t > 0, at its sort position, and no
\* level at p when t = 0; the other levels of that ladder keep volume and
\* order; the other ladder, owns and the cached bid and ask are unchanged.
C24_DepthTouchesOneLevel ==
    [][ev'.kind = "depth" =>
        \A typ \in Sides, p \in LadderPrices, t \in LadderVols :
            Depth(typ, p, t) =>
                /\ typ = "ask" => (/\ DepthEffect(asks, asks', p, t)
                                   /\ StrictlyAscending(asks')
                                   /\ bids' = bids)
                /\ typ = "bid" => (/\ DepthEffect(bids, bids', p, t)
                                   /\ StrictlyDescending(bids')
                                   /\ asks' = asks)
                /\ owns' = owns /\ bid' = bid /\ ask' = ask]_vars

\* a depth event changed a ladder that now holds three levels, the middle
\* one with another volume than its neighbours, while a ticker's values are
\* cached
C24_Witness ==
    /\ ev.kind = "depth" /\ ev.changed /\ Len(asks) = 3 /\ bid > 0
    /\ asks[2].volume = 2 /\ asks[1].volume = 1 /\ asks[3].volume = 1

\* ------------------------------------------------------------ C25
\* C25: a ticker (b, a) on the sorted book caches b and a, removes exactly
\* the ask levels priced below a and the bid levels priced above b (levels
\* priced a or b stay), and emits signal_changed at most once.
C25_TickerPrunes ==
    [][ev'.kind = "ticker" =>
        \A b \in LadderPrices, a \in LadderPrices :
          Ticker(b, a) =>
            /\ bid' = b /\ ask' = a
            /\ asks' = SelectSeq(asks, LAMBDA o : o.price >= a)
            /\ bids' = SelectSeq(bids, LAMBDA o : o.price <= b)
            /\ \A i \in DOMAIN asks' : asks'[i].price >= a
            /\ \A i \in DOMAIN bids' : bids'[i].price <= b
            /\ emitted' <= 1]_vars

\* a ticker pruned two ask levels with one emission and kept the level
\* priced exactly at its ask
C25_Witness ==
    /\ ev.kind = "ticker" /\ ev.changed /\ emitted = 1
    /\ Len(asks) = 1 /\ asks[1].price = ask /\ ask = 3


\* ------------------------------------------------------------ C26
\* what a trade (price p, volume v) is claimed to do to a list: the entry
\* at p loses v and is removed when it drops to <= 0, the others stay
TradeEffect(old, new, p, v) ==
    /\ LevelsOff(new, p) = LevelsOff(old, p)
    /\ \A i \in DOMAIN old :
        old[i].price = p =>
            IF old[i].volume - v <= 0 THEN Len(LevelsAt(new, p)) = 0
            ELSE /\ Len(LevelsAt(new, p)) = 1
                 /\ LevelsAt(new, p)[1].volume = old[i].volume - v

\* C26 as claimed: a public trade at price p with volume v decrements the
\* level priced p in asks and the level priced p in bids wherever it sits
\* in its list, removes a level that drops to <= 0 and leaves a list
\* without a level at p unchanged.
C26_TradeDecrementsAnywhere ==
    [][ev'.kind = "trade" =>
        \A p \in Prices, v \in Vols :
            Trade(p, v) => /\ TradeEffect(asks, asks', p, v)
                           /\ TradeEffect(bids, bids', p, v)]_vars


\* ------------------------------------------------------------ C27
\* C27: an own trade (a trade on another channel than the public one)
\* leaves candles, asks, bids and the cached bid and ask unchanged and
\* sends no history.signal_changed; a public trade leaves owns unchanged.
C27_OwnTradeOnlyOwns ==
    [][ev'.kind = "trade" =>
        \A channel \in TradeChannels, date \in TradeDates,
           price \in TradePrices :
            OnTrade(channel, "USD", date, price, 1) =>
                IF channel # PublicTrades
                THEN /\ candles' = candles /\ hev'.sent = 0
                     /\ asks' = asks /\ bids' = bids
                     /\ bid' = bid /\ ask' = ask
                ELSE owns' = owns]_vars

\* an own trade consumed an own order while a candle, an ask level, a bid
\* level and the cached bid and ask were there
C27_Witness ==
    /\ ev.kind = "trade" /\ ev.changed /\ hev.kind = "trade" /\ hev.sent = 0
    /\ Len(candles) > 0 /\ Len(asks) > 0 /\ Len(bids) > 0 /\ bid > 0
    /\ ask > 0 /\ Len(owns) = 0


\* ------------------------------------------------------------ C28
\* the entries of one side of a snapshot as levels, in the given order
AsLevels(side, typ) ==
    [i \in 1..Len(side) |-> Order(side[i].price, side[i].volume, typ, "", "")]

Reversed(s) == [i \in 1..Len(s) |-> s[Len(s) + 1 - i]]

\* C28: after a fulldepth snapshot asks holds the snapshot's ask entries in
\* their order and bids the snapshot's bid entries in reversed order, no
\* earlier level remains, owns is unchanged and signal_changed is emitted
\* exactly once.  In the two steps of the handler: the asks loop replaces
\* asks, empties bids and emits nothing, the bids loop fills bids, keeps
\* asks and emits once.
C28_FulldepthReplaces ==
    [][/\ ev'.kind = "fulldepth_asks" =>
            \A sa \in TradeSnapshots :
                FulldepthAsks(sa) => /\ asks' = AsLevels(sa, "ask")
                                     /\ bids' = <<>>
                                     /\ owns' = owns
                                     /\ emitted' = 0
       /\ ev'.kind = "fulldepth" =>
            \A sb \in TradeSnapshots :
                FulldepthBids(sb) => /\ bids' = Reversed(AsLevels(sb, "bid"))
                                     /\ asks' = asks
                                     /\ owns' = owns
                                     /\ emitted' = 1]_vars

\* a snapshot with two asks and two bids was loaded over a book with other
\* levels while an own order was held
C28_Witness ==
    /\ ev.kind = "fulldepth" /\ ev.changed /\ emitted = 1
    /\ Len(asks) = 2 /\ Len(bids) = 2 /\ bids[1].price > bids[2].price
    /\ Len(owns) > 0


\* ------------------------------------------------------------ C29
\* no two own orders share a non-empty oid
UniqueOids ==
    \A i, j \in DOMAIN owns :
        (i # j /\ owns[i].oid = owns[j].oid) => owns[i].oid = ""

\* what a signal_userorder event is claimed to do to the own orders
UserOrderEffect(old, new, price, volume, typ, oid, status) ==
    IF status = "removed"
    THEN new = SelectSeq(old, LAMBDA o : o.oid # oid)
    ELSE IF \E i \in DOMAIN old : old[i].oid = oid
    THEN new = [i \in DOMAIN old |->
                  IF old[i].oid = oid
                  THEN [old[i] EXCEPT !.volume = volume, !.status = status]
                  ELSE old[i]]
    ELSE new = Append(old, Order(price, volume, typ, oid, status))

\* C29: after any sequence of signal_userorder events (pushes, Gox.order,
\* Gox.cancel) no two own orders share a non-empty oid; an event with a
\* known oid updates volume and status of its entry, one with an unknown
\* oid appends an entry, and status removed deletes the entry of the oid,
\* or nothing when the oid is unknown.
C29_OneEntryPerOid ==
    /\ []UniqueOids
    /\ [][/\ oev'.op = "push" =>
                \A price \in OwnPrices, volume \in OwnVols, oid \in Oids,
                   status \in Statuses :
                    UserOrderPush(price, volume, "bid", oid, status) =>
                        UserOrderEffect(owns, owns', price, volume, "bid",
                                        oid, status)
          /\ (/\ call.pc = "http" /\ oev'.op \in {"order", "cancel"}
              /\ Len(oev'.sent) = 1) =>
                UserOrderEffect(owns, owns', oev'.sent[1].price,
                                oev'.sent[1].volume, oev'.sent[1].typ,
                                oev'.sent[1].oid, oev'.sent[1].status)]_vars

\* a push updated volume and status of the order that Gox.order had added
\* as pending at another price, next to another pending order
C29_Witness ==
    /\ oev.op = "push" /\ ev.kind = "user_order" /\ ev.changed
    /\ Len(owns) = 2 /\ owns[1].oid # owns[2].oid
    /\ owns[1].status = "open" /\ owns[2].status = "pending"
    /\ owns[1].volume = 2 /\ owns[1].price = 1 /\ owns[2].price = 2


\* ------------------------------------------------------------ C30
\* the entries of the list in the currency of the engine, as own orders
InCurrency(result) ==
    LET mine == SelectSeq(result, LAMBDA o : o.currency = "USD") IN
    [i \in 1..Len(mine) |->
        Order(mine[i].price.value_int, mine[i].amount.value_int,
              mine[i].type, mine[i].oid, mine[i].status)]

\* C30: after a result with id orders, owns holds exactly the entries of
\* the list in the currency of the engine, in list order; the own orders
\* held before, also those without oid, are gone.
C30_OrdersReplaceOwns ==
    oev.op = "orders" => owns = InCurrency(oev.res.list)

\* a list with an entry in another currency between two of the engine's
\* replaced other own orders
C30_Witness ==
    /\ oev.op = "orders" /\ ev.changed /\ Len(oev.res.list) = 3
    /\ oev.res.list[2].currency = "EUR" /\ Len(owns) = 2
    /\ owns[1].oid = "o2" /\ owns[2].oid = "o1"


\* ------------------------------------------------------------ C39
\* C39 as claimed: after any fullhistory snapshot and any sequence of
\* public trades no candle is a placeholder with open time 0 and zero
\* prices, and a snapshot with an empty trade list leaves no candle.
C39_NoPlaceholderCandle ==
    /\ \A i \in DOMAIN candles : ~(candles[i].tim = 0 /\ candles[i].opn = 0)
    /\ (hev.kind = "fullhistory" /\ hev.list = <<>>) => candles = <<>>

\* ------------------------------------------------------------ C40
RECURSIVE SumVol(_)
SumVol(cs) == IF Len(cs) = 0 THEN 0 ELSE cs[1].vol + SumVol(Tail(cs))

RECURSIVE SumVolume(_)
SumVolume(lst) ==
    IF Len(lst) = 0 THEN 0 ELSE lst[1].volume + SumVolume(Tail(lst))

\* C40 as claimed, for the snapshot: right after a fullhistory snapshot the
\* sum of vol over the candles equals the sum of the volumes of the trades
\* of the list.
C40_VolumeConserved ==
    hev.kind = "fullhistory" => SumVol(candles) = SumVolume(hev.list)


\* ------------------------------------------------- slot_recv on the data
\* Gox.slot_recv with what its handlers do to the order book, the history
\* and the wallet.  A message is a record of the keys it has; a key that a
\* handler reads and that is missing raises KeyError there.
GoxState ==
    [asks |-> asks, bids |-> bids, owns |-> owns, bid |-> bid, ask |-> ask,
     candles |-> candles, wallet |-> wallet]

\* a run of slot_recv so far: the state, the signals of Gox and the
\* signal_changed of the book sent, the calls on the client, and whether
\* an exception is on its way to the except clause
Run(st) ==
    [st |-> st, signals |-> <<>>, changed |-> 0, sends |-> <<>>,
     raised |-> FALSE]

Raise(r) == [r EXCEPT !.raised = TRUE]

Signal(r, name) == [r EXCEPT !.signals = Append(@, name)]

\* mutant: the ticker is taken whatever its currency
gox_on_tick_mut(r, msg) ==
    [Signal(r, "signal_ticker") EXCEPT
        !.st.bid = msg.ticker.buy.value_int,
        !.st.ask = msg.ticker.sell.value_int]

\* Gox._on_tick with OrderBook.slot_ticker as the slot of signal_ticker
gox_on_tick(r, msg) ==
    LET t == msg.ticker IN
    IF ~Has(t, "sell") \/ ~Has(t.sell, "currency") THEN Raise(r)
    ELSE IF t.sell.currency # "USD" THEN r
    ELSE IF ~Has(t.sell, "value_int") \/ ~Has(t, "buy")
            \/ ~Has(t.buy, "value_int") THEN Raise(r)
    ELSE LET a == t.sell.value_int
             b == t.buy.value_int
             st == [r.st EXCEPT !.bid = b, !.ask = a,
                                !.asks = prune_asks(@, a),
                                !.bids = prune_bids(@, b)]
         IN [Signal(r, "signal_ticker") EXCEPT
                !.st = st,
                !.changed = @ + IF st.asks # r.st.asks \/ st.bids # r.st.bids
                                THEN 1 ELSE 0]

\* Gox._on_depth with OrderBook.slot_depth as the slot of signal_depth
gox_on_depth(r, msg) ==
    LET d == msg.depth IN
    IF ~Has(d, "currency") THEN Raise(r)
    ELSE IF d.currency # "USD" THEN r
    ELSE IF ~({"type_str", "price_int", "volume_int", "total_volume_int"}
              \subseteq DOMAIN d) THEN Raise(r)
    ELSE LET st == IF d.type_str = "ask"
                   THEN [r.st EXCEPT !.asks = depth_update_list(@,
                            d.price_int, d.total_volume_int, "ask")]
                   ELSE [r.st EXCEPT !.bids = depth_update_list(@,
                            d.price_int, d.total_volume_int, "bid")]
         IN [Signal(r, "signal_depth") EXCEPT
                !.st = st,
                !.changed = @ + depth_emissions(st # r.st)]

\* Gox._on_trade with History.slot_trade and OrderBook.slot_trade as the
\* slots of signal_trade, in the order in which Gox.__init__ makes them
gox_on_trade(r, msg) ==
    IF ~Has(msg.trade, "price_currency") THEN Raise(r)
    ELSE IF msg.trade.price_currency # "USD" THEN r
    ELSE IF ~Has(msg, "channel")
            \/ ~({"date", "price_int", "amount_int"} \subseteq DOMAIN msg.trade)
    THEN Raise(r)
    ELSE LET own == is_own(msg.channel)
             price == msg.trade.price_int
             volume == msg.trade.amount_int
             cs == IF own THEN r.st.candles
                   ELSE slot_trade(r.st.candles, timeframe, msg.trade.date,
                                   price, volume)
             st == IF own
                   THEN [r.st EXCEPT
                            !.owns = trade_update_list(@, price, volume)]
                   ELSE LET as == trade_update_list(r.st.asks, price, volume)
                            bs == trade_update_list(r.st.bids, price, volume)
                        IN [r.st EXCEPT !.candles = cs,
                                        !.asks = as, !.bids = bs,
                                        !.ask = trade_refresh(@, as),
                                        !.bid = trade_refresh(@, bs)]
         IN [Signal(r, "signal_trade") EXCEPT !.st = st, !.changed = @ + 1]

RECURSIVE wallet_loop(_, _)
\* the for loop of _on_call_result over result["Wallets"], given in the
\* order of iteration as a sequence of [currency, entry]
wallet_loop(w, gox_wallet) ==
    IF Len(gox_wallet) = 0 THEN [wallet |-> w, raised |-> FALSE]
    ELSE LET e == gox_wallet[1] IN
         IF ~Has(e.entry, "Balance") \/ ~Has(e.entry.Balance, "value_int")
         THEN [wallet |-> w, raised |-> TRUE]
         ELSE wallet_loop([c \in DOMAIN w \cup {e.currency} |->
                            IF c = e.currency THEN e.entry.Balance.value_int
                            ELSE w[c]],
                          Tail(gox_wallet))

\* mutant: the balances are merged into the wallet
new_wallet_mut(w) == w

\* self.wallet = {}
new_wallet(w) == NoWallet

\* Gox._on_call_result with OrderBook.reset_own and add_own
gox_on_call_result(r, msg) ==
    IF ~Has(msg, "id") THEN Raise(r)
    ELSE IF msg.id = "idkey"
    THEN [r EXCEPT !.sends = Append(@, [kind |-> "plain", call |-> "",
                                        id |-> "subscribe_key",
                                        why |-> "idkey"])]
    ELSE IF msg.id = "orders"
    THEN LET run == orders_run(reset_own(r.st.owns), 0, msg.result)
         IN [r EXCEPT !.st.owns = run.owns,
                      !.changed = @ + 1 + run.added,
                      !.raised = run.raised]
    ELSE IF msg.id = "info"
    THEN IF ~Has(msg.result, "Wallets") THEN Raise(r)
         ELSE LET run == wallet_loop(new_wallet(r.st.wallet),
                                     msg.result.Wallets)
                  filled == [r EXCEPT !.st.wallet = run.wallet]
              IN IF run.raised THEN Raise(filled)
                 ELSE Signal(filled, "signal_wallet")
    ELSE r

\* Gox._on_user_order with OrderBook.slot_user_order as the slot of
\* signal_userorder
gox_on_user_order(r, msg) ==
    LET order == msg.user_order IN
    IF ~Has(order, "oid") THEN Raise(r)
    ELSE IF Has(order, "price")
    THEN IF ~Has(order, "currency") THEN Raise(r)
         ELSE IF order.currency # "USD" THEN r
         ELSE IF ~Has(order, "amount") \/ ~Has(order, "type")
                 \/ ~Has(order, "status") THEN Raise(r)
         ELSE [Signal(r, "signal_userorder") EXCEPT
                !.st.owns = user_order_update(@, order.price.value_int,
                                order.amount.value_int, order.type,
                                order.oid, order.status),
                !.changed = @ + 1]
    ELSE [Signal(r, "signal_userorder") EXCEPT
            !.st.owns = user_order_update(@, 0, 0, "", order.oid, "removed"),
            !.changed = @ + 1]

\* Gox._on_wallet and the remark part of slot_recv: calls on the client
gox_sends(r, plan) == [r EXCEPT !.sends = @ \o plan.sends]

\* the next statement h of the try statement, on the run r0 so far: it is
\* skipped when an exception is on its way
AndThen(r0, h(_)) ==
    CHOOSE x \in {IF r.raised THEN r ELSE h(r) : r \in {r0}} : TRUE

\* the body of the try statement of Gox.slot_recv: the handlers one after
\* the other, up to the first that raises
gox_slot_recv(st, msg) ==
    AndThen(AndThen(AndThen(AndThen(AndThen(AndThen(AndThen(Run(st),
        LAMBDA r : IF Has(msg, "ticker") THEN gox_on_tick(r, msg) ELSE r),
        LAMBDA r : IF Has(msg, "depth") THEN gox_on_depth(r, msg) ELSE r),
        LAMBDA r : IF Has(msg, "trade") THEN gox_on_trade(r, msg) ELSE r),
        LAMBDA r : IF Has(msg, "result")
                   THEN gox_on_call_result(r, msg) ELSE r),
        LAMBDA r : IF Has(msg, "user_order")
                   THEN gox_on_user_order(r, msg) ELSE r),
        LAMBDA r : IF Has(msg, "wallet") THEN gox_sends(r, on_wallet) ELSE r),
        LAMBDA r : gox_sends(r, on_remark(msg)))

\* the messages here: market data and pushes in the currency of the engine
\* and in another, results of private/orders and private/info, wallet
\* pushes, remarks, and messages without a key that a handler reads
TickerOf(c) ==
    [sell |-> [currency |-> c, value_int |-> 2], buy |-> [value_int |-> 1]]

DepthOf(c, typ, total) ==
    [currency |-> c, type_str |-> typ,
     price_int |-> IF typ = "ask" THEN 2 ELSE 1,
     volume_int |-> 1, total_volume_int |-> total]

MalformedDepth == [currency |-> "USD", type_str |-> "ask"]

OrderOf(c, oid) ==
    [currency |-> c, price |-> [value_int |-> 1], amount |-> [value_int |-> 1],
     type |-> "bid", oid |-> oid, status |-> "open"]

BalanceOf(c, n) == [currency |-> c, entry |-> [Balance |-> [value_int |-> n]]]

GoxOrderLists ==
    {<<>>, <<OrderOf("USD", "o1")>>, <<OrderOf("EUR", "o2")>>,
     <<OrderOf("USD", "o1"), OrderOf("USD", "o2")>>,
     <<OrderOf("USD", "o2"), [oid |-> "o1"]>>,
     <<[oid |-> "o1"]>>}

GoxWallets ==
    {<<>>, <<BalanceOf("USD", 1)>>, <<BalanceOf("BTC", 2)>>,
     <<BalanceOf("BTC", 1), BalanceOf("USD", 2)>>,
     <<BalanceOf("BTC", 1), [currency |-> "USD", entry |-> [Open |-> 0]]>>}

TradeOf(ch, c) ==
    [channel |-> ch,
     trade |-> [price_currency |-> c, date |-> 900, price_int |-> 1,
                amount_int |-> 1]]

\* market data, pushes of own orders and results of private/orders
MarketMsgs ==
    {[ticker |-> TickerOf(c)] : c \in Currencies}
    \cup {[depth |-> DepthOf(c, typ, total)] :
            c \in Currencies, typ \in Sides, total \in {0, 1}}
    \cup {[depth |-> MalformedDepth],
          [ticker |-> TickerOf("USD"), depth |-> MalformedDepth],
          [ticker |-> TickerOf("USD"), depth |-> DepthOf("USD", "ask", 1)]}
    \cup {TradeOf(ch, c) : ch \in TradeChannels, c \in Currencies}
    \cup {[user_order |-> OrderOf(c, "o1")] : c \in Currencies}
    \cup {[user_order |-> [oid |-> "o1"]]}
    \cup {[id |-> "orders", result |-> l] : l \in GoxOrderLists}

\* wallet pushes, results of private/info and of the other calls, a
\* remark, and one message of each other kind
AccountMsgs ==
    {[id |-> "info", result |-> [Wallets |-> w]] : w \in GoxWallets}
    \cup {[id |-> "info", result |-> [Login |-> "x"]],
          [id |-> "idkey", result |-> "key"],
          [id |-> "orders", result |-> <<OrderOf("USD", "o1")>>],
          [result |-> "key"],
          [wallet |-> "w"],
          [wallet |-> "w", id |-> "info",
           result |-> [Wallets |-> <<BalanceOf("USD", 1)>>]],
          [op |-> "remark", success |-> FALSE, id |-> "info"],
          [ticker |-> TickerOf("USD")],
          [depth |-> DepthOf("USD", "ask", 1)],
          TradeOf(PublicTrades, "USD"),
          [user_order |-> OrderOf("USD", "o1")]}

\* slot_recv with one message runs to its end or to its except clause,
\* which logs and goes on: what it does to the data
slot_recv_body(msg) ==
    LET r == gox_slot_recv(GoxState, msg) IN
    /\ Len(r.st.candles) <= MaxCandles
    /\ \A k \in DOMAIN r.st.candles : r.st.candles[k].vol <= MaxCandleVol
    /\ asks' = r.st.asks
    /\ bids' = r.st.bids
    /\ owns' = r.st.owns
    /\ bid' = r.st.bid
    /\ ask' = r.st.ask
    /\ candles' = r.st.candles
    /\ wallet' = r.st.wallet
    /\ gev' = [msg |-> msg, signals |-> r.signals, calls |-> r.sends,
               raised |-> r.raised]
    /\ ev' = [kind |-> "recv", changed |-> BookState' # BookState]
    /\ emitted' = r.changed
    /\ hev' = IF candles' # candles
              THEN [NoHistoryEvent EXCEPT !.kind = "trade", !.sent = 1]
              ELSE hev

\* signal_recv with one message, with no other thread at work
SlotRecv(msg) ==
    /\ book_pc = "idle"
    /\ slot_recv_body(msg)
    /\ UNCHANGED <<book_pc, pre, signalVars, connVars, callVars>>

RecvNext == \E msg \in MarketMsgs : SlotRecv(msg)

SpecRecv == Init /\ [][RecvNext]_vars

WalletNext == \E msg \in AccountMsgs : SlotRecv(msg)

SpecWallet == Init /\ [][WalletNext]_vars

\* ---------------------------------------------------------------- threads
\* The threads that write the order book, the history and the wallet, each
\* through Signal.send: the receive thread (signal_recv with slot_recv),
\* fulldepth_thread (signal_fulldepth with slot_fulldepth), history_thread
\* (signal_fullhistory with slot_fullhistory) and the thread that calls
\* Gox.order (signal_userorder with slot_user_order).  Nothing but the lock
\* of Signal.send keeps a slot from running while another one runs:
\* slot_fulldepth takes two steps, and book_pc is where it is.
AppThreads ==
    {"recv_thread", "fulldepth_thread", "history_thread", "caller_thread"}

SignalOf(t) ==
    CASE t = "recv_thread" -> "signal_recv"
      [] t = "fulldepth_thread" -> "signal_fulldepth"
      [] t = "history_thread" -> "signal_fullhistory"
      [] t = "caller_thread" -> "signal_userorder"

\* what the receive thread dispatches here: a message with a key for every
\* handler that writes (ticker, depth, trade, the result of private/info
\* and a push of an own order), and a depth message that removes a level
ThreadMsgs ==
    {[ticker |-> TickerOf("USD"),
      depth |-> DepthOf("USD", "bid", 1),
      channel |-> PublicTrades,
      trade |-> [price_currency |-> "USD", date |-> 900, price_int |-> 2,
                 amount_int |-> 1],
      id |-> "info", result |-> [Wallets |-> <<BalanceOf("USD", 1)>>],
      user_order |-> OrderOf("USD", "o1")],
     [depth |-> DepthOf("USD", "bid", 0)]}

\* the snapshot of fulldepth_thread and the trade list of history_thread
ThreadSnapshot == [asks |-> <<[price |-> 2, volume |-> 1]>>,
                   bids |-> <<[price |-> 1, volume |-> 1]>>]

ThreadHistory == <<[date |-> 900, price |-> 1, volume |-> 1]>>

\* thread t is in the slot of its signal
InSlot(t) ==
    /\ Depth_(t) = 1
    /\ TopFrame(t).at = "in_slot"
    /\ TopFrame(t).sig = SignalOf(t)

\* thread t calls send() of its signal from its top level
StartSend(t) ==
    /\ Depth_(t) = 0
    /\ stack' = [stack EXCEPT ![t] = <<Frame(SignalOf(t), FALSE)>>]
    /\ UNCHANGED <<slots, lock_owner, lock_count, last>>
    /\ UNCHANGED otherThanSignal

\* Gox.slot_recv on the receive thread
RecvSlot(msg) ==
    /\ InSlot("recv_thread")
    /\ slot_recv_body(msg)
    /\ stack' = SetTop("recv_thread", after_return(TopFrame("recv_thread")))
    /\ UNCHANGED <<book_pc, pre, slots, lock_owner, lock_count, last,
                   connVars, callVars>>

\* OrderBook.slot_fulldepth on fulldepth_thread: the two lists are reset
\* and the asks are loaded
FulldepthSlotAsks ==
    /\ InSlot("fulldepth_thread")
    /\ book_pc = "idle"
    /\ asks' = load_asks(<<>>, ThreadSnapshot.asks)
    /\ bids' = <<>>
    /\ pre' = [changed |-> asks' # asks, bids |-> bids]
    /\ book_pc' = "fulldepth_bids"
    /\ UNCHANGED <<owns, bid, ask>>
    /\ ev' = [kind |-> "fulldepth_asks", changed |-> BookState' # BookState]
    /\ emitted' = 0
    /\ UNCHANGED otherThanBook

\* the bids are loaded into self.bids as it is then, signal_changed is
\* sent and the slot returns
FulldepthSlotBids ==
    /\ InSlot("fulldepth_thread")
    /\ book_pc = "fulldepth_bids"
    /\ bids' = load_bids(bids, ThreadSnapshot.bids)
    /\ pre' = NoPre
    /\ book_pc' = "idle"
    /\ ev' = [kind |-> "fulldepth", changed |-> pre.changed \/ bids' # pre.bids]
    /\ emitted' = 1
    /\ stack' = SetTop("fulldepth_thread",
                       after_return(TopFrame("fulldepth_thread")))
    /\ UNCHANGED <<asks, owns, bid, ask, slots, lock_owner, lock_count, last,
                   connVars, callVars, historyVars, goxVars>>

\* History.slot_fullhistory on history_thread
HistorySlot ==
    /\ InSlot("history_thread")
    /\ candles' = slot_fullhistory(candles, timeframe, ThreadHistory)
    /\ hev' = [kind |-> "fullhistory", list |-> ThreadHistory, reps |-> 1,
               first |-> candles', sent |-> 1]
    /\ stack' = SetTop("history_thread",
                       after_return(TopFrame("history_thread")))
    /\ UNCHANGED <<bookVars, slots, lock_owner, lock_count, last, connVars,
                   callVars, goxVars>>

\* OrderBook.slot_user_order with the pending order of Gox.order, on the
\* thread that called Gox.order
OrderSlot ==
    /\ InSlot("caller_thread")
    /\ UserOrder(1, 1, "bid", "o2", "pending")
    /\ stack' = SetTop("caller_thread", after_return(TopFrame("caller_thread")))
    /\ UNCHANGED <<asks, bids, bid, ask, book_pc, pre, slots, lock_owner,
                   lock_count, last, connVars, callVars, historyVars,
                   goxVars>>

ThreadsInit ==
    /\ BookInit
    /\ ConnIdle
    /\ CallInit
    /\ slots = [s \in {SignalOf(t) : t \in AppThreads} |-> <<1>>]
    /\ lock_owner = NoThread
    /\ lock_count = 0
    /\ stack = [t \in AppThreads |-> <<>>]
    /\ last = NoSend

ThreadsNext ==
    \/ \E t \in AppThreads : StartSend(t)
    \/ \E t \in AppThreads : Acquire(t)
    \/ \E t \in AppThreads : SlotCall(t)
    \/ \E t \in AppThreads : SendReturn(t)
    \/ \E msg \in ThreadMsgs : RecvSlot(msg)
    \/ FulldepthSlotAsks
    \/ FulldepthSlotBids
    \/ HistorySlot
    \/ OrderSlot

SpecThreads == ThreadsInit /\ [][ThreadsNext]_vars

\* ------------------------------------------------------------ C33
\* C33 as claimed: a frame (for Socket.IO the payload after 4::/mtgox:)
\* that does not begin with "{", an empty one included, is ignored: a step
\* of the read loop that reads such a frame (rx changes to what the loop
\* did with it: ignored it, or failed in the subscript of the empty text)
\* emits nothing on the receive signal, leaves the socket open and stays
\* in the read loop.
C33_NonJsonFrameIgnored ==
    [][(/\ conn_pc = "recv"
        /\ rx' # rx
        /\ rx' \in {"ignored", "IndexError"})
            => (conn_pc' = "recv" /\ socket' = "open" /\ dsp' = dsp)]_vars


\* ------------------------------------------------------------ C34
\* a ticker, depth or trade message in another currency than that of the
\* engine, or a user_order message with a price in another currency
Foreign(msg) ==
    \/ Has(msg, "ticker") /\ msg.ticker.sell.currency # "USD"
    \/ Has(msg, "depth") /\ Has(msg.depth, "currency")
        /\ msg.depth.currency # "USD"
    \/ Has(msg, "trade") /\ msg.trade.price_currency # "USD"
    \/ Has(msg, "user_order") /\ Has(msg.user_order, "price")
        /\ msg.user_order.currency # "USD"

\* C34: the handling of a ticker, depth or trade message in another
\* currency, or of a user_order message with a price in another currency,
\* sends no signal and leaves asks, bids, owns, the cached bid and ask and
\* the candles as they were.
C34_ForeignCurrencyIgnored ==
    [][Foreign(gev'.msg) =>
        /\ gev'.signals = <<>>
        /\ emitted' = 0
        /\ UNCHANGED <<asks, bids, owns, bid, ask, candles>>]_vars

\* a ticker in another currency was handled on a loaded book whose cached
\* bid is not that of the ticker
C34_Witness ==
    /\ gev.msg = [ticker |-> TickerOf("EUR")]
    /\ gev.signals = <<>>
    /\ bid # 1
    /\ Len(asks) > 0 /\ Len(bids) > 0 /\ Len(owns) > 0 /\ Len(candles) > 0


\* ------------------------------------------------------------ C38
\* C38 as claimed: a message whose handling raises (a handler reads a key
\* that is missing) is dropped as a whole: asks, bids, owns, the cached bid
\* and ask, the wallet and the candles are as they were before it; a valid
\* ticker with a malformed depth applies neither, and a result of
\* private/orders with a malformed entry leaves the own orders alone.
C38_FailedFrameDropped ==
    [][gev'.raised =>
        UNCHANGED <<asks, bids, owns, bid, ask, wallet, candles>>]_vars


\* ------------------------------------------------------------ C31
\* a result frame of private/info
InfoResult(msg) == Has(msg, "result") /\ Has(msg, "id") /\ msg.id = "info"

\* the balances of a result: value_int of Balance per currency
BalancesOf(gox_wallet) ==
    [c \in {gox_wallet[i].currency : i \in DOMAIN gox_wallet} |->
        LET i == CHOOSE i \in DOMAIN gox_wallet : gox_wallet[i].currency = c
        IN gox_wallet[i].entry.Balance.value_int]

\* C31: a wallet push does not change the wallet itself and makes exactly
\* one signed call of private/info with reqid info; the wallet changes only
\* in the handling of a result frame with id info, and when that handling
\* completes the wallet is exactly the balances of the result (nothing of
\* the old wallet is kept) and signal_wallet was sent exactly once.
C31_WalletPullThrough ==
    [][LET m == gev'.msg IN
       /\ (Has(m, "wallet") /\ ~Has(m, "result")) => wallet' = wallet
       /\ (Has(m, "wallet") /\ ~gev'.raised) =>
            SelectSeq(gev'.calls, LAMBDA c : c.why = "wallet")
                = <<[kind |-> "signed", call |-> "private/info",
                     id |-> "info", why |-> "wallet"]>>
       /\ wallet' # wallet => InfoResult(m)
       /\ (InfoResult(m) /\ ~gev'.raised) =>
            /\ wallet' = BalancesOf(m.result.Wallets)
            /\ SelectSeq(gev'.signals, LAMBDA s : s = "signal_wallet")
                = <<"signal_wallet">>
       /\ ~InfoResult(m) =>
            SelectSeq(gev'.signals, LAMBDA s : s = "signal_wallet") = <<>>
      ]_vars

\* a wallet push was handled after a result of private/info had filled the
\* wallet with one balance
C31_Witness ==
    /\ gev.msg = [wallet |-> "w"]
    /\ Len(gev.calls) = 1 /\ gev.calls[1].id = "info"
    /\ DOMAIN wallet = {"USD"} /\ wallet["USD"] = 1


\* ------------------------------------------------------------ C35
\* the own orders that a cancel loop with this filter cancels
Cancellable(o, by, ftyp, fprice) ==
    /\ o.oid # ""
    /\ IF by = "price" THEN o.price = fprice
       ELSE ftyp = "None" \/ o.typ = ftyp

\* C35: with no other thread running and every cancel succeeding,
\* cancel_by_type(None) leaves exactly the own orders without oid,
\* cancel_by_type(side) and cancel_by_price(p) leave exactly the orders
\* without oid and those of another side or price, and Gox.cancel was
\* called exactly once for each order that went.
C35_CancelByRemovesMatching ==
    [][oev'.op = "cancel_by" =>
        \A by \in {"type", "price"}, ftyp \in TypFilters \cup {""},
           fprice \in OwnPrices \cup {0} :
            CancelByAll(by, ftyp, fprice) =>
                LET gone == SelectSeq(owns,
                        LAMBDA o : Cancellable(o, by, ftyp, fprice))
                    kept == SelectSeq(owns,
                        LAMBDA o : ~Cancellable(o, by, ftyp, fprice))
                IN /\ owns' = kept
                   /\ oev'.http = Len(gone)
                   /\ \A k \in DOMAIN gone :
                        Cardinality({j \in DOMAIN oev'.sent :
                            oev'.sent[j].oid = gone[k].oid}) = 1]_vars

\* a cancel loop has cancelled two orders and left the one without oid
C35_Witness ==
    /\ oev.op = "cancel_by" /\ oev.http = 2 /\ oev.n = 3
    /\ Len(owns) = 1 /\ owns[1].oid = ""


\* ------------------------------------------------------------ C36
\* C36 as claimed: when the removal push for the oid that order/add returns
\* was dispatched while Gox.order waited for the reply, the own orders hold
\* no entry with that oid once Gox.order has returned.
C36_RemovedStaysRemoved ==
    [][(/\ call.pc = "http" /\ call.op = "order"
        /\ oev.op = "push" /\ oev.cause = "removed"
        /\ oev'.op = "order" /\ oev'.cause = "success"
        /\ oev'.oid = oev.oid)
            => \A i \in DOMAIN owns' : owns'[i].oid # oev'.oid]_vars

\* ------------------------------------------------------------ C37
\* C37 as claimed: when a push for the oid that order/add returns has set
\* the status open and a remaining volume while Gox.order waited for the
\* reply, the return of Gox.order leaves status and volume of that order as
\* the push set them.
C37_PushNotOverwritten ==
    [][(/\ call.pc = "http" /\ call.op = "order"
        /\ oev.op = "push" /\ oev.cause = "open"
        /\ oev'.op = "order" /\ oev'.cause = "success"
        /\ oev'.oid = oev.oid)
            => \A i \in DOMAIN owns, j \in DOMAIN owns' :
                (owns[i].oid = oev.oid /\ owns'[j].oid = oev.oid) =>
                    /\ owns'[j].status = owns[i].status
                    /\ owns'[j].volume = owns[i].volume]_vars


\* ------------------------------------------------------------ C32
\* what the claim calls the shared state
SharedState == <<asks, bids, owns, bid, ask, candles, wallet>>

\* C32: every step that writes asks, bids, owns, bid, ask, the candles or
\* the wallet is a step of the thread that holds the lock of Signal.send,
\* and that thread holds it before and after; while slot_fulldepth is
\* between its reset and the end of its bids loop, the lock is with
\* fulldepth_thread, no other thread is in a slot, and the only step that
\* writes is the second half of slot_fulldepth.
C32_WritesUnderLock ==
    /\ [](book_pc = "fulldepth_bids" =>
            /\ lock_owner = "fulldepth_thread"
            /\ \A t \in AppThreads \ {"fulldepth_thread"} : ~InSlot(t))
    /\ [][/\ (\E msg \in ThreadMsgs : RecvSlot(msg)) =>
                (lock_owner = "recv_thread" /\ book_pc = "idle")
          /\ (FulldepthSlotAsks \/ FulldepthSlotBids) =>
                lock_owner = "fulldepth_thread"
          /\ HistorySlot => (lock_owner = "history_thread" /\ book_pc = "idle")
          /\ OrderSlot => (lock_owner = "caller_thread" /\ book_pc = "idle")
          /\ SharedState' # SharedState =>
                (lock_owner # NoThread /\ lock_owner' = lock_owner)
          /\ (book_pc = "fulldepth_bids" /\ SharedState' # SharedState) =>
                FulldepthSlotBids]_vars

\* slot_fulldepth has reset the book that the receive thread had filled
\* and loaded the asks; the receive thread and history_thread wait in
\* send() for the lock
C32_Witness ==
    /\ book_pc = "fulldepth_bids"
    /\ pre.bids # <<>> /\ bids = <<>> /\ Len(asks) = 1
    /\ Blocked("recv_thread") /\ Blocked("history_thread")
    /\ Len(owns) > 0 /\ wallet # NoWallet

=============================================================================
